---------------------------- MODULE Spec2Model ----------------------------
(***************************************************************************)
(* Web-Diagnostics-Suite: the concurrent execution core.                   *)
(*                                                                         *)
(*   - the phase orchestrator   AnalysisService.analyze_website            *)
(*   - the weighted aggregation AnalysisService._calculate_overall_score   *)
(*   - the probe fan-out        SecurityAnalyzer.analyze                   *)
(*   - the resource pool        BrowserManager (its source is not part of  *)
(*                              the tree; modelled from the design text)   *)
(*                                                                         *)
(* Each component has its own next-state relation and specification over   *)
(* the shared variable list; a component's specification leaves the other  *)
(* components' variables at their initial values.                          *)
(***************************************************************************)
EXTENDS Integers, Sequences, FiniteSets, TLC

VARIABLES
    \* ---- AnalysisService.analyze_website (one run at a time) ----
    pc,              \* position of the run: "idle", a phase name, "aggregate", "done", "raised"
    service_ready,   \* what is_ready() gave at the start of the current run
    url_valid,       \* whether _normalize_url accepted the url of the current run
    analysis_count,  \* self._analysis_count
    include_screenshots, \* the option of the current run
    results,         \* speed_results / seo_results / security_results / mobile_results
    returned,        \* what each analyzer coroutine returned to wait_for (NoReturn if it did not)
    started,         \* the analyzer coroutines created so far in this run, in order
    settled,         \* per phase: how many times a result was recorded for it in this run
    progress,        \* percents handed to the progress callback in this run, in order
    scoreArgs,       \* the four arguments passed to _calculate_overall_score
    report,          \* the dictionary analyze_website returned (NoReport before)
    callback,        \* progress_callback of the current run: "none", "sync" or "async"
    sink_raised,     \* whether an invocation of the callback raised in this run
    \* ---- AnalysisService._calculate_overall_score on its own ----
    calcIn,          \* <<speed, seo, security, mobile>> of the last call
    calcOut,         \* its return value
    \* ---- SecurityAnalyzer.analyze (one call at a time) ----
    secPc,           \* "idle", "fanout" (the gather is pending), "done" (returned
                     \* its results), "failed" (returned _create_error_result), "raised"
    can_fetch_content, \* connectivity["can_fetch_content"] of _test_basic_connectivity
    gathered,        \* per probe: Pending, or what the coroutine gave to gather
    secResult,       \* the dictionary analyze returned (NoResult before)
    \* ---- the resource pool (BrowserManager) ----
    poolLock,        \* who is inside the pool's critical section: "free", a caller, "maintainer"
    callerPc,        \* per caller: "out", "selecting", "provisioning", "leased", "releasing"
                     \* ("releasing": the phase body was left and release is in the section)
    lease,           \* per caller: the entry its Lease refers to (NoEntry if it holds none)
    idle,            \* entries in state Idle
    leased,          \* entries in state Leased
    provisioning,    \* entries in state Provisioning
    retiring,        \* entries in state Retiring (removed from the list, close pending)
    closed,          \* entries in state Closed
    poolEntries,     \* the steady-state entry list
    overflowEntries, \* temporary overflow entries, not part of the entry list
    useCount,        \* per entry: completed leases
    nextId,          \* identity of the next entry to be created
    shutdownBegun,   \* whether shutdown() has begun
    exitPath,        \* per caller: how the phase body was left, while its release is
                     \* in progress ("none" otherwise)
    poolLog,         \* what the pool logged last: the result of its last operation
    preRetireSize,   \* size of the entry list before the latest retirement whose
                     \* replacement failed, until the next maintenance cycle (0: none)
    \* ---- interleaved analyze_website runs on one event loop ----
    runPc,           \* per run: "new", "rejecting" (awaiting the 'Invalid URL' event),
                     \* "raised", "running", "done"
    analysis_id,     \* per run: the local analysis_id (NoId before it is assigned)
    \* ---- RateLimiter (token bucket) and its two front ends, one domain ----
    now,             \* time.time(), in ticks
    tokens,          \* bucket["tokens"] in units of 1/TokenScale token (NoKey: no bucket yet)
    last_update,     \* bucket["last_update"]
    rlReturn,        \* what the last can_proceed call returned: <<can_proceed, delay>>
    rlCalls,         \* can_proceed calls made so far
    clientPc,        \* per client: "out", "sleeping" (in time.sleep / asyncio.sleep),
                     \* "proceeding" (its request is being made)
    wakeAt,          \* per client: the time its sleep ends
    asyncLock,       \* AsyncRateLimiter._lock: "free" or the client holding it
    granted,         \* can_proceed calls that returned True
    proceeded,       \* requests let through by __enter__ or wait_if_needed
    \* ---- CacheService and its backend ----
    cacheBackend,    \* config.backend: "memory", "disk", "sqlite", "hybrid" ("none" before
                     \* the service is constructed)
    store,           \* the items of the backend, in the order of the OrderedDict for the
                     \* memory backend (first = next to be evicted)
    cacheTime,       \* time.time(), in ticks
    stats,           \* self._stats
    getReturn,       \* what the last backend get returned (NoItem for None)
    cacheOps,        \* calls of get, set, delete and cleanup cycles so far
    lastOp,          \* the last call: <<name, key>>
    lruOrder,        \* the stored keys from least to most recently used, a key being
                     \* used by each set of it and each get that returned it
    \* ---- perform_background_analysis and the ConnectionManager ----
    bgPc,            \* per session: where its background run stands
    db,              \* per session: the database session of the run: "none", "open", "closed"
    active_connections,  \* manager.active_connections: the sessions with a websocket
    bgEvents,        \* per session: the events handed to manager.send_progress
    delivered        \* per session: the events sent over its websocket

pipelineVars == <<pc, service_ready, url_valid, analysis_count, include_screenshots, results, returned,
                  started, settled, progress, scoreArgs, report, callback, sink_raised>>
calcVars == <<calcIn, calcOut>>
secVars == <<secPc, can_fetch_content, gathered, secResult>>
poolVars == <<poolLock, callerPc, lease, idle, leased, provisioning, retiring,
              closed, poolEntries, overflowEntries, useCount, nextId, shutdownBegun,
              exitPath, poolLog, preRetireSize>>
runVars == <<runPc, analysis_id>>
rateVars == <<now, tokens, last_update, rlReturn, rlCalls, clientPc, wakeAt, asyncLock,
              granted, proceeded>>
cacheVars == <<cacheBackend, store, cacheTime, stats, getReturn, cacheOps, lastOp, lruOrder>>
bgVars == <<bgPc, db, active_connections, bgEvents, delivered>>
laterVars == <<runVars, rateVars, cacheVars, bgVars>>
vars == <<pipelineVars, calcVars, secVars, poolVars, laterVars>>
nonPipelineVars == <<calcVars, secVars, poolVars, laterVars>>
nonCalcVars == <<pipelineVars, secVars, poolVars, laterVars>>
nonSecVars == <<pipelineVars, calcVars, poolVars, laterVars>>
nonPoolVars == <<pipelineVars, calcVars, secVars, laterVars>>
\* the variables of a single run other than the counter the runs share
pipelineRest == <<pc, service_ready, url_valid, include_screenshots, results, returned,
                  started, settled, progress, scoreArgs, report, callback, sink_raised>>
nonRunVars == <<pipelineRest, calcVars, secVars, poolVars, rateVars, cacheVars, bgVars>>
nonRateVars == <<pipelineVars, calcVars, secVars, poolVars, runVars, cacheVars, bgVars>>
nonCacheVars == <<pipelineVars, calcVars, secVars, poolVars, runVars, rateVars, bgVars>>
nonBgVars == <<pipelineVars, calcVars, secVars, poolVars, runVars, rateVars, cacheVars>>

-----------------------------------------------------------------------------
(* Bounds *)

\* number of analyze_website runs explored
MaxRuns == 2

\* analyze_website coroutines alive on the event loop at the same time
MaxTasks == 3

\* ticks of the clock the rate limiter is watched for
MaxTime == 4

\* can_proceed calls explored
MaxCalls == 5

\* ticks of the clock the cache is watched for
MaxCacheTime == 3

\* cache calls and cleanup cycles explored
MaxOps == 4

\* callers that use the pool concurrently
Callers == {"c1", "c2", "c3"}

\* entries the pool creates over its lifetime
MaxEntries == 3

\* scores an analyzer can compute on success (all analyzers clamp to 0..100)
ScoreValues == {40, 70, 90}

\* scores fed to _calculate_overall_score when it is checked on its own;
\* 1 and 46 produce exact .5 ties of the weighted sum
CalcValues == {0, 1, 40, 46, 70, 90, 100}

-----------------------------------------------------------------------------
(* Dictionaries.  A result dictionary is a record of the keys the          *)
(* orchestrator reads; NoKey stands for an absent key.                     *)

NoKey == -1
NoError == "<absent>"
NoReturn == [score |-> NoKey, overall_score |-> NoKey, error |-> "<no return>"]
NoReport == [kind |-> "none"]

PhaseOrder == <<"speed", "seo", "security", "mobile">>
Phases == {PhaseOrder[i] : i \in 1..4}

PhaseIndex(p) == CHOOSE i \in 1..4 : PhaseOrder[i] = p

\* results.get('score', 0)
GetScore(r) == IF r.score = NoKey THEN 0 ELSE r.score

\* "error" in results
HasError(r) == r.error # NoError

\* {"score": 0, "recommendations": [], "error": "Not completed"}
FallbackResult == [score |-> 0, overall_score |-> NoKey, error |-> "Not completed"]

-----------------------------------------------------------------------------
(* What the four analyzers can hand back to the orchestrator.  Every       *)
(* analyzer wraps its whole body in try/except Exception and converts a    *)
(* failure into a result dictionary, so the coroutine itself returns; the  *)
(* orchestrator's own except branch is reached through the wait_for timer. *)

\* SpeedAnalyzer._create_timeout_result
SpeedTimeoutResult == [score |-> 20, overall_score |-> NoKey, error |-> "Analysis timed out"]

\* SpeedAnalyzer._create_error_result
SpeedErrorResult == [score |-> 0, overall_score |-> NoKey, error |-> "speed analysis failed"]

\* SEOAnalyzer._create_timeout_result
SeoTimeoutResult == [score |-> 20, overall_score |-> NoKey, error |-> "Analysis timed out"]

\* SEOAnalyzer._create_error_result
SeoErrorResult == [score |-> 0, overall_score |-> NoKey, error |-> "Could not fetch page content"]

\* SecurityAnalyzer._create_error_result
SecurityErrorResult == [score |-> 0, overall_score |-> NoKey, error |-> "security analysis failed"]

\* a completed analysis of speed, SEO or security: the score is under 'score'
ScoredResult(s) == [score |-> s, overall_score |-> NoKey, error |-> NoError]

\* MobileAnalyzer.analyze_mobile_friendliness, completed: the score it
\* computed is stored under 'overall_score'; the dictionary has no 'score' key
MobileResult(m) == [score |-> NoKey, overall_score |-> m, error |-> NoError]

\* MobileAnalyzer.analyze_mobile_friendliness, except branch: results["error"]
\* is set and 'overall_score' keeps its initial 0
MobileErrorResult == [score |-> NoKey, overall_score |-> 0, error |-> "mobile analysis failed"]

AnalyzerReturns(p) ==
    CASE p = "speed"    -> {ScoredResult(s) : s \in ScoreValues} \cup {SpeedTimeoutResult, SpeedErrorResult}
      [] p = "seo"      -> {ScoredResult(s) : s \in ScoreValues} \cup {SeoTimeoutResult, SeoErrorResult}
      [] p = "security" -> {ScoredResult(s) : s \in ScoreValues} \cup {SecurityErrorResult}
      [] p = "mobile"   -> {MobileResult(m) : m \in ScoreValues} \cup {MobileErrorResult}

\* the score the phase's analyzer computed for a result it returned
ComputedScore(p, r) == IF p = "mobile" THEN r.overall_score ELSE r.score

\* task_name of _run_with_timeout, as it appears in the TimeoutError message
TimeoutMessage(p) ==
    CASE p = "speed"    -> "Speed Analysis took too long to complete"
      [] p = "seo"      -> "SEO Analysis took too long to complete"
      [] p = "security" -> "Security Analysis took too long to complete"
      [] p = "mobile"   -> "Mobile Analysis took too long to complete"

\* the message of the TimeoutError that _run_with_timeout raises in place of
\* a CancelledError
CancelMessage(p) ==
    CASE p = "speed"    -> "Speed Analysis was cancelled"
      [] p = "seo"      -> "SEO Analysis was cancelled"
      [] p = "security" -> "Security Analysis was cancelled"
      [] p = "mobile"   -> "Mobile Analysis was cancelled"

-----------------------------------------------------------------------------
(* Rounding.  round() is applied to a binary floating point sum of         *)
(* products such as 0.35 * speed, which are not exact: when the exact      *)
(* weighted sum ends in .5 the float lands on either side of the tie       *)
(* or exactly on the tie, where round() goes to the even neighbour         *)
(* (speed 1, seo 0, security 1, mobile 46: exact sum 7.5, float sum        *)
(* 7.499999999999999, result 7; speed 90, seo 1, security 1, mobile 40:    *)
(* exact and float sum 38.0; speed 0, seo 0, security 0, mobile 70: 10.5,  *)
(* result 10).  Away from a tie the float error (about 1e-14) cannot       *)
(* change the nearest integer.  A weighted sum is carried in hundredths;   *)
(* at a tie both neighbours are admitted.                                  *)

\* round(w / 100) for w >= 0
RoundCandidates(w) ==
    LET q == w \div 100
        r == w % 100
    IN  IF r < 50 THEN {q}
        ELSE IF r > 50 THEN {q + 1}
        ELSE {q, q + 1}

\* max(0, min(100, x))
Clamp(x) == IF x < 0 THEN 0 ELSE IF x > 100 THEN 100 ELSE x

\* weights of AnalysisService._calculate_overall_score, in hundredths
Weight(p) ==
    CASE p = "speed"    -> 35
      [] p = "seo"      -> 25
      [] p = "security" -> 25
      [] p = "mobile"   -> 15

\* the weighted sum renormalised over the phases that have a non-zero score
WeightedScoreRenormalised(speed, seo, security, mobile) ==
    LET total == (IF speed > 0 THEN 35 ELSE 0) + (IF seo > 0 THEN 25 ELSE 0)
                   + (IF security > 0 THEN 25 ELSE 0) + (IF mobile > 0 THEN 15 ELSE 0)
        sum == speed * 35 + seo * 25 + security * 25 + mobile * 15
    IN  IF total = 0 THEN 0 ELSE (sum * 100) \div total

\* speed * 0.35 + seo * 0.25 + security * 0.25 + mobile * 0.15, in hundredths
WeightedScore(speed, seo, security, mobile) ==
    speed * Weight("speed") + seo * Weight("seo")
      + security * Weight("security") + mobile * Weight("mobile")

\* the values _calculate_overall_score can return
OverallScores(speed, seo, security, mobile) ==
    {Clamp(x) : x \in RoundCandidates(WeightedScore(speed, seo, security, mobile))}

-----------------------------------------------------------------------------
(* AnalysisService.analyze_website *)

PipelineInit ==
    /\ pc = "idle"
    /\ service_ready = FALSE
    /\ url_valid = TRUE
    /\ analysis_count = 0
    /\ include_screenshots = TRUE
    /\ results = [p \in Phases |-> FallbackResult]
    /\ returned = [p \in Phases |-> NoReturn]
    /\ started = <<>>
    /\ settled = [p \in Phases |-> 0]
    /\ progress = <<>>
    /\ scoreArgs = <<>>
    /\ report = NoReport
    /\ callback = "async"
    /\ sink_raised = FALSE

CalcInit ==
    /\ calcIn = <<>>
    /\ calcOut = NoKey

\* progress events sent between the settling of phase p and the next await of
\* an analyzer (or of the aggregation): the "after" event of p and the
\* "before" event of what follows
EventsAfter(p, shots) ==
    CASE p = "speed"    -> <<25, 30>>
      [] p = "seo"      -> <<50, 55>>
      [] p = "security" -> IF shots THEN <<75, 80>> ELSE <<75>>
      [] p = "mobile"   -> <<90, 95>>

NextPc(p) == IF p = "mobile" THEN "aggregate" ELSE PhaseOrder[PhaseIndex(p) + 1]

\* the kinds of progress_callback a caller can pass
CallbackKinds == {"none", "sync", "async"}

\* _send_progress for a run of consecutive events: nothing happens without a
\* callback; otherwise the callback is invoked (awaited when it is a coroutine
\* function) with each percent, and an Exception it raises is caught and
\* logged inside _send_progress.  failed tells whether some invocation raised.
SendProgress(cb, prior, raisedBefore, events, failed) ==
    /\ progress' = IF cb = "none" THEN prior ELSE prior \o events
    /\ sink_raised' = (raisedBefore \/ (failed /\ cb # "none" /\ events # <<>>))

\* the run counter is advanced before the url is looked at
StartRunInvalidCounted(ready, valid, shots, cb, failed) ==
    /\ pc \in {"idle", "done", "raised"}
    /\ analysis_count < MaxRuns
    /\ service_ready' = ready
    /\ url_valid' = valid
    /\ include_screenshots' = shots
    /\ callback' = cb
    /\ results' = [p \in Phases |-> FallbackResult]
    /\ returned' = [p \in Phases |-> NoReturn]
    /\ settled' = [p \in Phases |-> 0]
    /\ scoreArgs' = <<>>
    /\ report' = NoReport
    /\ IF ~ready
       THEN /\ analysis_count' = analysis_count
            /\ progress' = <<>>
            /\ sink_raised' = FALSE
            /\ started' = <<>>
            /\ pc' = "raised"
       ELSE IF valid
       THEN /\ analysis_count' = analysis_count + 1
            /\ SendProgress(cb, <<>>, FALSE, <<0, 10>>, failed)
            /\ started' = <<"speed">>
            /\ pc' = "speed"
       ELSE /\ analysis_count' = analysis_count + 1
            /\ SendProgress(cb, <<>>, FALSE, <<0>>, failed)
            /\ started' = <<>>
            /\ pc' = "raised"
    /\ UNCHANGED nonPipelineVars

\* lines 113-142: readiness and URL checks, id allocation, fallback results,
\* the first two progress events, and the creation of the speed coroutine
StartRun(ready, valid, shots, cb, failed) ==
    /\ pc \in {"idle", "done", "raised"}
    /\ analysis_count < MaxRuns
    /\ service_ready' = ready
    /\ url_valid' = valid
    /\ include_screenshots' = shots
    /\ callback' = cb
    /\ results' = [p \in Phases |-> FallbackResult]
    /\ returned' = [p \in Phases |-> NoReturn]
    /\ settled' = [p \in Phases |-> 0]
    /\ scoreArgs' = <<>>
    /\ report' = NoReport
    /\ IF ~ready
       THEN \* is_ready() is false: RuntimeError before anything else happens
            /\ analysis_count' = analysis_count
            /\ progress' = <<>>
            /\ sink_raised' = FALSE
            /\ started' = <<>>
            /\ pc' = "raised"
       ELSE IF valid
       THEN /\ analysis_count' = analysis_count + 1
            /\ SendProgress(cb, <<>>, FALSE, <<0, 10>>, failed)
            /\ started' = <<"speed">>
            /\ pc' = "speed"
       ELSE \* _normalize_url raised ValueError: one error event, then re-raise
            /\ analysis_count' = analysis_count
            /\ SendProgress(cb, <<>>, FALSE, <<0>>, failed)
            /\ started' = <<>>
            /\ pc' = "raised"
    /\ UNCHANGED nonPipelineVars

\* a failed phase short-circuits the run straight to the aggregation
ProceedShortCircuit(p, r, failed) ==
    /\ results' = [results EXCEPT ![p] = r]
    /\ settled' = [settled EXCEPT ![p] = @ + 1]
    /\ SendProgress(callback, progress, sink_raised, EventsAfter(p, include_screenshots), failed)
    /\ started' = IF p = "mobile" \/ HasError(r) THEN started ELSE Append(started, NextPc(p))
    /\ pc' = IF HasError(r) THEN "aggregate" ELSE NextPc(p)
    /\ UNCHANGED <<service_ready, url_valid, analysis_count, include_screenshots, scoreArgs, report,
                   callback, nonPipelineVars>>

\* an exception raised by the callback is not caught in _send_progress and
\* leaves analyze_website
ProceedSinkAborts(p, r, failed) ==
    /\ results' = [results EXCEPT ![p] = r]
    /\ settled' = [settled EXCEPT ![p] = @ + 1]
    /\ SendProgress(callback, progress, sink_raised, EventsAfter(p, include_screenshots), failed)
    /\ started' = IF p = "mobile" \/ sink_raised' THEN started ELSE Append(started, NextPc(p))
    /\ pc' = IF sink_raised' THEN "raised" ELSE NextPc(p)
    /\ UNCHANGED <<service_ready, url_valid, analysis_count, include_screenshots, scoreArgs, report,
                   callback, nonPipelineVars>>

\* what the orchestrator does once the awaited phase p has settled with
\* result dictionary r: send the events and create the next coroutine
Proceed(p, r, failed) ==
    /\ results' = [results EXCEPT ![p] = r]
    /\ settled' = [settled EXCEPT ![p] = @ + 1]
    /\ SendProgress(callback, progress, sink_raised, EventsAfter(p, include_screenshots), failed)
    /\ started' = IF p = "mobile" THEN started ELSE Append(started, NextPc(p))
    /\ pc' = NextPc(p)
    /\ UNCHANGED <<service_ready, url_valid, analysis_count, include_screenshots, scoreArgs, report,
                   callback, nonPipelineVars>>

\* the analyzer coroutine of phase p returns r before the timer fires
PhaseReturn(p, r, failed) ==
    /\ pc = p
    /\ r \in AnalyzerReturns(p)
    /\ returned' = [returned EXCEPT ![p] = r]
    /\ Proceed(p, r, failed)

\* the TimeoutError is not caught around the phase and leaves analyze_website
PhaseTimeoutUncaught(p, failed) ==
    /\ pc = p
    /\ pc' = "raised"
    /\ UNCHANGED <<service_ready, url_valid, analysis_count, include_screenshots, results, returned,
                   started, settled, progress, scoreArgs, report, callback, sink_raised,
                   nonPipelineVars>>

\* wait_for without a timer: the timeout never fires
PhaseTimeoutNever(p, failed) ==
    /\ pc = p
    /\ FALSE
    /\ UNCHANGED vars

\* _run_with_timeout: the wait_for timer fires, TimeoutError reaches the
\* except branch of the phase, which writes the message into the fallback
PhaseTimeout(p, failed) ==
    /\ pc = p
    /\ UNCHANGED returned
    /\ Proceed(p, [results[p] EXCEPT !.error = TimeoutMessage(p)], failed)

\* the CancelledError is not caught in _run_with_timeout; it is no Exception
\* for the except branch of the phase and leaves analyze_website
PhaseCancelledPropagates(p, failed) ==
    /\ pc = p
    /\ pc' = "raised"
    /\ UNCHANGED <<service_ready, url_valid, analysis_count, include_screenshots, results,
                   returned, started, settled, progress, scoreArgs, report, callback,
                   sink_raised, nonPipelineVars>>

\* _run_with_timeout, lines 306-308: the run is cancelled while wait_for is
\* pending; wait_for cancels the analyzer and raises CancelledError, which is
\* replaced by TimeoutError("... was cancelled"); that reaches the except
\* branch of the phase like a timeout
PhaseCancelled(p, failed) ==
    /\ pc = p
    /\ UNCHANGED returned
    /\ Proceed(p, [results[p] EXCEPT !.error = CancelMessage(p)], failed)

\* lines 216-260: aggregation and the final report
Aggregate(failed) ==
    /\ pc = "aggregate"
    /\ LET args == [i \in 1..4 |-> GetScore(results[PhaseOrder[i]])]
       IN  /\ scoreArgs' = args
           /\ \E overall \in OverallScores(args[1], args[2], args[3], args[4]) :
                report' = [kind |-> "report",
                           overall_score |-> overall,
                           phases |-> results,
                           analysis_id |-> analysis_count,
                           fatal_error |-> NoError]
    /\ SendProgress(callback, progress, sink_raised, <<100>>, failed)
    /\ pc' = "done"
    /\ UNCHANGED <<service_ready, url_valid, analysis_count, include_screenshots, results,
                   returned, started, settled, callback, nonPipelineVars>>

\* lines 262-286: an exception raised by the aggregation code (the score
\* call or the building of the report) reaches the handler of the outer
\* try, which sends the "Analysis failed" event with percent 0 and returns
\* the report of a fatal error with the phase results collected so far
AggregateFail(failed) ==
    /\ pc = "aggregate"
    /\ scoreArgs' = [i \in 1..4 |-> GetScore(results[PhaseOrder[i]])]
    /\ report' = [kind |-> "report",
                  overall_score |-> 0,
                  phases |-> results,
                  analysis_id |-> analysis_count,
                  fatal_error |-> "aggregation failed"]
    /\ SendProgress(callback, progress, sink_raised, <<0>>, failed)
    /\ pc' = "done"
    /\ UNCHANGED <<service_ready, url_valid, analysis_count, include_screenshots, results,
                   returned, started, settled, callback, nonPipelineVars>>

PipelineNext ==
    \/ \E ready \in BOOLEAN, valid \in BOOLEAN, shots \in BOOLEAN, cb \in CallbackKinds,
          failed \in BOOLEAN :
          StartRun(ready, valid, shots, cb, failed)
    \/ \E p \in Phases, failed \in BOOLEAN : \E r \in AnalyzerReturns(p) : PhaseReturn(p, r, failed)
    \/ \E p \in Phases, failed \in BOOLEAN : PhaseTimeout(p, failed)
    \/ \E p \in Phases, failed \in BOOLEAN : PhaseCancelled(p, failed)
    \/ \E failed \in BOOLEAN : Aggregate(failed)
    \/ \E failed \in BOOLEAN : AggregateFail(failed)

-----------------------------------------------------------------------------
(* AnalysisService._calculate_overall_score as a function of its inputs *)

CalculateOverallScore(speed, seo, security, mobile) ==
    /\ calcIn' = <<speed, seo, security, mobile>>
    /\ calcOut' \in OverallScores(speed, seo, security, mobile)
    /\ UNCHANGED nonCalcVars

CalcNext ==
    \E speed \in CalcValues, seo \in CalcValues, security \in CalcValues, mobile \in CalcValues :
        CalculateOverallScore(speed, seo, security, mobile)

-----------------------------------------------------------------------------
(* SecurityAnalyzer.analyze: connectivity test, fan-out of four probes     *)
(* under asyncio.gather(return_exceptions=True), correlation, scoring.     *)

Probes == {"ssl", "headers", "https", "cookie"}
Dependents == {"headers", "https", "cookie"}

NoWarning == "<absent>"
Pending == [kind |-> "pending"]
NoResult == [kind |-> "none"]

\* messages that occur as the 'error' of an analysis
CascadeMessage == "Connection failed - cannot reach server"
ExceptionMessages == {"Connection reset by peer", "boom"}

\* any(keyword in error.lower() for keyword in
\*     ["timeout", "connection", "dns", "network"])
ContainsKeyword(msg) ==
    msg \in {"SSL connection failed: handshake failure",
             "DNS resolution failed: name not known",
             "Connection timeout: timed out",
             "Connection reset by peer",
             CascadeMessage}

\* ----- the dictionaries of the four probes -----
\* ssl: certificate_found, is_valid, the sizes of security_issues and
\* security_warnings, days_until_expiry, error
SslAnalysis(found, valid, issues, warnings, days, err) ==
    [certificate_found |-> found, is_valid |-> valid, issues |-> issues,
     warnings |-> warnings, days_until_expiry |-> days, error |-> err]

\* headers and cookie: the score keys _reduce_analysis_confidence looks for
ScoredAnalysis(hscore, cscore, err) ==
    [headers_score |-> hscore, cookie_security_score |-> cscore,
     confidence_warning |-> NoWarning, error |-> err]

\* https: uses_https, redirect_working, https_strength.connection_successful,
\* mixed_content_risk.mixed_content_found, error
HttpsAnalysis(uses, redirect, strong, mixed, err) ==
    [uses_https |-> uses, redirect_working |-> redirect,
     connection_successful |-> strong, mixed_content_found |-> mixed,
     confidence_warning |-> NoWarning, error |-> err]

\* content security: csp_implemented, csp_analysis.score, inline scripts and
\* styles, sri_usage, csrf_protection, error
CspAnalysis(impl, cspScore, scripts, styles, sri, csrf, err) ==
    [csp_implemented |-> impl, csp_score |-> cspScore, has_inline_scripts |-> scripts,
     has_inline_styles |-> styles, sri_usage |-> sri, csrf_protection |-> csrf,
     error |-> err]

\* what _analyze_ssl_certificate returns (it catches every Exception itself)
SslReturns ==
    { SslAnalysis(TRUE, TRUE, 0, 0, 365, NoError),
      SslAnalysis(TRUE, TRUE, 1, 1, 20, NoError),
      SslAnalysis(TRUE, FALSE, 1, 0, 0 - 3, NoError),
      SslAnalysis(FALSE, FALSE, 1, 0, 365, "No certificate received"),
      SslAnalysis(FALSE, FALSE, 1, 0, 0, "SSL connection failed: handshake failure"),
      SslAnalysis(FALSE, FALSE, 1, 0, 0, "DNS resolution failed: name not known") }

\* what _analyze_security_headers returns
HeadersReturns ==
    { ScoredAnalysis(100, NoKey, NoError),
      ScoredAnalysis(45, NoKey, NoError),
      ScoredAnalysis(0, NoKey, "Request timeout") }

\* what _analyze_https_implementation returns
HttpsReturns ==
    { HttpsAnalysis(TRUE, TRUE, TRUE, FALSE, NoError),
      HttpsAnalysis(TRUE, FALSE, FALSE, FALSE, NoError),
      HttpsAnalysis(FALSE, FALSE, FALSE, TRUE, NoError),
      HttpsAnalysis(FALSE, FALSE, FALSE, FALSE, "https check failed") }

\* what _analyze_cookie_security returns; its except branch reports the
\* "unknown state" score 50 together with the error
CookieReturns ==
    { ScoredAnalysis(NoKey, 100, NoError),
      ScoredAnalysis(NoKey, 35, NoError),
      ScoredAnalysis(NoKey, 50, "cookie check failed") }

\* what _analyze_content_security_enhanced returns (it never raises)
CspReturns ==
    { CspAnalysis(TRUE, 80, FALSE, FALSE, 2, "present", NoError),
      CspAnalysis(FALSE, 0, TRUE, TRUE, 0, "not_detected", NoError),
      CspAnalysis(FALSE, 0, FALSE, FALSE, 0, "unknown", "content check failed") }

ProbeReturns(p) ==
    CASE p = "ssl"     -> SslReturns
      [] p = "headers" -> HeadersReturns
      [] p = "https"   -> HttpsReturns
      [] p = "cookie"  -> CookieReturns

\* ----- _create_failed_*_analysis -----
CreateFailedSsl(err) == SslAnalysis(FALSE, FALSE, 1, 0, 365, err)
CreateFailedHeaders(err) == ScoredAnalysis(0, NoKey, err)
CreateFailedHttps(err) == HttpsAnalysis(FALSE, FALSE, FALSE, FALSE, err)
CreateFailedCookie(err) == ScoredAnalysis(NoKey, 0, err)
CreateFailedCsp(err) == CspAnalysis(FALSE, 0, FALSE, FALSE, 0, "unknown", err)

CreateFailed(p, err) ==
    CASE p = "ssl"     -> CreateFailedSsl(err)
      [] p = "headers" -> CreateFailedHeaders(err)
      [] p = "https"   -> CreateFailedHttps(err)
      [] p = "cookie"  -> CreateFailedCookie(err)

\* a raised exception is passed on as if it were the probe's payload
HandleGatherResultUnchecked(p, g) ==
    IF g.kind = "exception" THEN CreateFailed(p, NoError) ELSE g.payload

\* lines 110-113: x if not isinstance(x, Exception) else
\* self._create_failed_x_analysis(str(x))
HandleGatherResult(p, g) ==
    IF g.kind = "exception" THEN CreateFailed(p, g.msg) ELSE g.payload

\* _is_ssl_connection_failure
IsSslConnectionFailure(sslA) ==
    IF ~sslA.certificate_found
    THEN sslA.error # NoError /\ ContainsKeyword(sslA.error)
    ELSE FALSE

\* _reduce_analysis_confidence on a headers or cookie dictionary
ReduceAnalysisConfidence(a) ==
    IF a.error = NoError
    THEN LET a1 == IF a.headers_score # NoKey
                   THEN [a EXCEPT !.headers_score = a.headers_score \div 2,
                                  !.confidence_warning = "Reduced confidence: SSL connection issues detected"]
                   ELSE a
         IN  IF a1.cookie_security_score # NoKey
             THEN [a1 EXCEPT !.cookie_security_score = a1.cookie_security_score \div 2,
                             !.confidence_warning = "Reduced confidence: SSL connection issues detected"]
             ELSE a1
    ELSE a

\* the cascade leaves the HTTPS analysis as the probe produced it
CorrelateKeepHttps(a, canFetch, csp) ==
    LET sslFailed == IsSslConnectionFailure(a["ssl"])
    IN  IF sslFailed /\ ~canFetch
        THEN [ssl |-> a["ssl"],
              headers |-> CreateFailedHeaders(CascadeMessage),
              https |-> a["https"],
              cookie |-> CreateFailedCookie(CascadeMessage),
              csp |-> CreateFailedCsp(CascadeMessage)]
        ELSE [ssl |-> a["ssl"],
              headers |-> IF sslFailed THEN ReduceAnalysisConfidence(a["headers"]) ELSE a["headers"],
              https |-> a["https"],
              cookie |-> IF sslFailed THEN ReduceAnalysisConfidence(a["cookie"]) ELSE a["cookie"],
              csp |-> csp]

\* lines 115-139: the correlation pass over the four analyses a, given the
\* connectivity flag and what the content security analysis would return
Correlate(a, canFetch, csp) ==
    LET sslFailed == IsSslConnectionFailure(a["ssl"])
    IN  IF sslFailed /\ ~canFetch
        THEN [ssl |-> a["ssl"],
              headers |-> CreateFailedHeaders(CascadeMessage),
              https |-> CreateFailedHttps(CascadeMessage),
              cookie |-> CreateFailedCookie(CascadeMessage),
              csp |-> CreateFailedCsp(CascadeMessage)]
        ELSE [ssl |-> a["ssl"],
              headers |-> IF sslFailed THEN ReduceAnalysisConfidence(a["headers"]) ELSE a["headers"],
              https |-> a["https"],
              cookie |-> IF sslFailed THEN ReduceAnalysisConfidence(a["cookie"]) ELSE a["cookie"],
              csp |-> csp]

\* ----- scoring -----
\* _calculate_ssl_score
CalculateSslScore(sslA) ==
    IF ~sslA.certificate_found THEN 0
    ELSE IF ~sslA.is_valid THEN 10
    ELSE Clamp(100 - sslA.issues * 20 - sslA.warnings * 5
                 - (IF sslA.days_until_expiry < 0 THEN 50
                    ELSE IF sslA.days_until_expiry < 30 THEN 15
                    ELSE IF sslA.days_until_expiry < 90 THEN 5 ELSE 0))

\* _calculate_headers_score: headers_analysis.get("headers_score", 0)
CalculateHeadersScore(a) == IF a.headers_score = NoKey THEN 0 ELSE a.headers_score

\* _calculate_https_score
CalculateHttpsScore(a) ==
    Clamp((IF a.uses_https THEN 50 ELSE 0) + (IF a.redirect_working THEN 30 ELSE 0)
            + (IF a.connection_successful THEN 15 ELSE 0)
            - (IF a.mixed_content_found THEN 20 ELSE 0))

\* _calculate_cookie_score: cookie_analysis.get("cookie_security_score", 50)
CalculateCookieScore(a) == IF a.cookie_security_score = NoKey THEN 50 ELSE a.cookie_security_score

Min(x, y) == IF x < y THEN x ELSE y

\* _calculate_content_security_score
CalculateContentSecurityScore(c) ==
    Clamp(40
          + (IF c.csp_implemented
             THEN 40 + Min(20, c.csp_score \div 5)
             ELSE 0 - (IF c.has_inline_scripts THEN 15 ELSE 0)
                    - (IF c.has_inline_styles THEN 5 ELSE 0))
          + (IF c.sri_usage > 0 THEN Min(15, c.sri_usage * 3) ELSE 0)
          + (IF c.csrf_protection = "present" THEN 10
             ELSE IF c.csrf_protection = "not_detected" THEN 0 - 5 ELSE 0))

\* SecurityAnalyzer._calculate_overall_score: scoring_weights in hundredths
SecurityOverallScores(sslS, headersS, httpsS, cookieS, contentS) ==
    {Clamp(x) : x \in RoundCandidates(sslS * 30 + headersS * 25 + httpsS * 20
                                        + cookieS * 15 + contentS * 10)}

\* ----- the call -----
SecInit ==
    /\ secPc = "idle"
    /\ can_fetch_content = TRUE
    /\ gathered = [p \in Probes |-> Pending]
    /\ secResult = NoResult

\* lines 88-107: the connectivity test has answered and the four probe
\* coroutines are handed to gather
SecStart(canFetch) ==
    /\ secPc \in {"idle", "done", "failed"}
    /\ secPc' = "fanout"
    /\ can_fetch_content' = canFetch
    /\ gathered' = [p \in Probes |-> Pending]
    /\ secResult' = NoResult
    /\ UNCHANGED nonSecVars

\* probe p returns a dictionary
ProbeReturn(p, payload) ==
    /\ secPc = "fanout"
    /\ gathered[p] = Pending
    /\ payload \in ProbeReturns(p)
    /\ gathered' = [gathered EXCEPT ![p] = [kind |-> "value", payload |-> payload]]
    /\ UNCHANGED <<secPc, can_fetch_content, secResult, nonSecVars>>

\* probe p raises; gather keeps the exception as the probe's result
ProbeRaise(p, msg) ==
    /\ secPc = "fanout"
    /\ gathered[p] = Pending
    /\ msg \in ExceptionMessages
    /\ gathered' = [gathered EXCEPT ![p] = [kind |-> "exception", msg |-> msg]]
    /\ UNCHANGED <<secPc, can_fetch_content, secResult, nonSecVars>>

\* _create_error_result
CreateErrorResult(msg) == [kind |-> "error", score |-> 0, error |-> msg]

\* lines 93-95 and 202-204: urlparse raises ValueError for a url such as
\* "http://[" before anything is awaited; the handler of the try block
\* returns the error result
SecFail(msg) ==
    /\ secPc \in {"idle", "done", "failed"}
    /\ msg \in {"Invalid IPv6 URL"}
    /\ secPc' = "failed"
    /\ gathered' = [p \in Probes |-> Pending]
    /\ secResult' = CreateErrorResult(msg)
    /\ UNCHANGED <<can_fetch_content, nonSecVars>>

\* gather without return_exceptions: the first exception of a probe leaves
\* analyze
SecFinishPropagates(csp) ==
    /\ secPc = "fanout"
    /\ \A p \in Probes : gathered[p] # Pending
    /\ csp \in CspReturns
    /\ \E p \in Probes : gathered[p].kind = "exception"
    /\ secPc' = "raised"
    /\ UNCHANGED <<can_fetch_content, gathered, secResult, nonSecVars>>

\* the correlation pass starts as soon as the SSL probe has settled; a probe
\* that is still running is taken as failed
SecFinishEarly(csp) ==
    /\ secPc = "fanout"
    /\ gathered["ssl"] # Pending
    /\ csp \in CspReturns
    /\ LET a == [p \in Probes |-> IF gathered[p] = Pending
                                   THEN CreateFailed(p, "not finished")
                                   ELSE HandleGatherResult(p, gathered[p])]
           c == Correlate(a, can_fetch_content, csp)
           sslS == CalculateSslScore(c.ssl)
           headersS == CalculateHeadersScore(c.headers)
           httpsS == CalculateHttpsScore(c.https)
           cookieS == CalculateCookieScore(c.cookie)
           contentS == CalculateContentSecurityScore(c.csp)
       IN  \E overall \in SecurityOverallScores(sslS, headersS, httpsS, cookieS, contentS) :
             secResult' = [kind |-> "result",
                           score |-> overall,
                           analysis |-> [p \in Probes |-> c[p]],
                           content_security_analysis |-> c.csp,
                           score_breakdown |-> [ssl |-> sslS, headers |-> headersS,
                                                https |-> httpsS, cookie |-> cookieS,
                                                content |-> contentS]]
    /\ secPc' = "done"
    /\ UNCHANGED <<can_fetch_content, gathered, nonSecVars>>

\* lines 109-200: gather has all four results; exceptions are replaced, the
\* correlation pass runs, the scores are computed and the result is returned
SecFinish(csp) ==
    /\ secPc = "fanout"
    /\ \A p \in Probes : gathered[p] # Pending
    /\ csp \in CspReturns
    /\ LET a == [p \in Probes |-> HandleGatherResult(p, gathered[p])]
           c == Correlate(a, can_fetch_content, csp)
           sslS == CalculateSslScore(c.ssl)
           headersS == CalculateHeadersScore(c.headers)
           httpsS == CalculateHttpsScore(c.https)
           cookieS == CalculateCookieScore(c.cookie)
           contentS == CalculateContentSecurityScore(c.csp)
       IN  \E overall \in SecurityOverallScores(sslS, headersS, httpsS, cookieS, contentS) :
             secResult' = [kind |-> "result",
                           score |-> overall,
                           analysis |-> [p \in Probes |-> c[p]],
                           content_security_analysis |-> c.csp,
                           score_breakdown |-> [ssl |-> sslS, headers |-> headersS,
                                                https |-> httpsS, cookie |-> cookieS,
                                                content |-> contentS]]
    /\ secPc' = "done"
    /\ UNCHANGED <<can_fetch_content, gathered, nonSecVars>>

SecNext ==
    \/ \E canFetch \in BOOLEAN : SecStart(canFetch)
    \/ \E p \in Probes : \E payload \in ProbeReturns(p) : ProbeReturn(p, payload)
    \/ \E p \in Probes, msg \in ExceptionMessages : ProbeRaise(p, msg)
    \/ \E csp \in CspReturns : SecFinish(csp)
    \/ \E msg \in {"Invalid IPv6 URL"} : SecFail(msg)

-----------------------------------------------------------------------------
(* The resource pool.  BrowserManager is imported by the service and the   *)
(* analyzers but its source is not in the tree; the pool is modelled from  *)
(* the design text: checkout, release, maintain and shutdown, each one     *)
(* critical section of the pool; provisioning an engine is a suspension    *)
(* point inside the section.  A caller is a unit of work of a phase that   *)
(* holds a Lease inside an `async with` block.                             *)

\* configuration of the pool: steady-state maximum, floor, retirement threshold
PoolMax == 2
PoolFloor == 1
MaxUseCount == 2

NoEntry == 0
EntryIds == 1..MaxEntries

\* the ways the body of `async with browser_manager.get_browser_page()` is
\* left: return, an exception, the CancelledError of the phase's wait_for
\* timer, the CancelledError of an external cancellation of the run
ExitPaths == {"returned", "raised", "timed_out", "cancelled"}

PoolInit ==
    /\ poolLock = "free"
    /\ callerPc = [c \in Callers |-> "out"]
    /\ lease = [c \in Callers |-> NoEntry]
    /\ idle = 1..PoolFloor
    /\ leased = {}
    /\ provisioning = {}
    /\ retiring = {}
    /\ closed = {}
    /\ poolEntries = 1..PoolFloor
    /\ overflowEntries = {}
    /\ useCount = [e \in EntryIds |-> 0]
    /\ nextId = PoolFloor + 1
    /\ shutdownBegun = FALSE
    /\ exitPath = [c \in Callers |-> "none"]
    /\ poolLog = "none"
    /\ preRetireSize = 0

\* the section is entered without taking the pool's lock
EnterSectionUnlocked(who) ==
    /\ poolLock' = who

\* entering the critical section
EnterSection(who) ==
    /\ poolLock = "free"
    /\ poolLock' = who

\* checkout waits for an entry to be released when the pool is at its maximum
CheckoutBeginBlocking(c) ==
    /\ callerPc[c] = "out"
    /\ ~shutdownBegun
    /\ EnterSection(c)
    /\ IF idle # {}
       THEN /\ \E e \in idle : lease' = [lease EXCEPT ![c] = e]
            /\ callerPc' = [callerPc EXCEPT ![c] = "selecting"]
            /\ UNCHANGED <<provisioning, overflowEntries, nextId>>
       ELSE /\ nextId <= MaxEntries
            /\ Cardinality(poolEntries) < PoolMax
            /\ lease' = [lease EXCEPT ![c] = nextId]
            /\ provisioning' = provisioning \cup {nextId}
            /\ UNCHANGED overflowEntries
            /\ nextId' = nextId + 1
            /\ callerPc' = [callerPc EXCEPT ![c] = "provisioning"]
    /\ UNCHANGED <<idle, leased, retiring, closed, poolEntries, useCount, shutdownBegun,
                   exitPath, poolLog, preRetireSize, nonPoolVars>>

\* checkout does not look at the shutdown flag
CheckoutBeginIgnoresShutdown(c) ==
    /\ callerPc[c] = "out"
    /\ EnterSection(c)
    /\ IF idle # {}
       THEN /\ \E e \in idle : lease' = [lease EXCEPT ![c] = e]
            /\ callerPc' = [callerPc EXCEPT ![c] = "selecting"]
            /\ UNCHANGED <<provisioning, overflowEntries, nextId>>
       ELSE /\ nextId <= MaxEntries
            /\ lease' = [lease EXCEPT ![c] = nextId]
            /\ provisioning' = provisioning \cup {nextId}
            /\ overflowEntries' = IF Cardinality(poolEntries) >= PoolMax
                                  THEN overflowEntries \cup {nextId}
                                  ELSE overflowEntries
            /\ nextId' = nextId + 1
            /\ callerPc' = [callerPc EXCEPT ![c] = "provisioning"]
    /\ UNCHANGED <<idle, leased, retiring, closed, poolEntries, useCount, shutdownBegun,
                   exitPath, poolLog, preRetireSize, nonPoolVars>>

\* checkout, first half: inside the section, scan for an Idle entry; with
\* none, start provisioning a new entry (an overflow entry at the maximum)
CheckoutBegin(c) ==
    /\ callerPc[c] = "out"
    /\ ~shutdownBegun
    /\ EnterSection(c)
    /\ IF idle # {}
       THEN /\ \E e \in idle : lease' = [lease EXCEPT ![c] = e]
            /\ callerPc' = [callerPc EXCEPT ![c] = "selecting"]
            /\ UNCHANGED <<provisioning, overflowEntries, nextId>>
       ELSE /\ nextId <= MaxEntries
            /\ lease' = [lease EXCEPT ![c] = nextId]
            /\ provisioning' = provisioning \cup {nextId}
            /\ overflowEntries' = IF Cardinality(poolEntries) >= PoolMax
                                  THEN overflowEntries \cup {nextId}
                                  ELSE overflowEntries
            /\ nextId' = nextId + 1
            /\ callerPc' = [callerPc EXCEPT ![c] = "provisioning"]
    /\ UNCHANGED <<idle, leased, retiring, closed, poolEntries, useCount, shutdownBegun,
                   exitPath, poolLog, preRetireSize, nonPoolVars>>

\* checkout with no Idle entry when no further engine can be created:
\* AcquisitionFailed at once
CheckoutExhausted(c) ==
    /\ callerPc[c] = "out"
    /\ ~shutdownBegun
    /\ poolLock = "free"
    /\ idle = {}
    /\ nextId > MaxEntries
    /\ poolLog' = "AcquisitionFailed"
    /\ UNCHANGED <<poolLock, callerPc, lease, idle, leased, provisioning, retiring, closed,
                   poolEntries, overflowEntries, useCount, nextId, shutdownBegun,
                   exitPath, preRetireSize, nonPoolVars>>

\* checkout once shutdown has begun: rejected with ShuttingDown
CheckoutRejected(c) ==
    /\ callerPc[c] = "out"
    /\ shutdownBegun
    /\ poolLock = "free"
    /\ poolLog' = "ShuttingDown"
    /\ UNCHANGED <<poolLock, callerPc, lease, idle, leased, provisioning, retiring, closed,
                   poolEntries, overflowEntries, useCount, nextId, shutdownBegun,
                   exitPath, preRetireSize, nonPoolVars>>

\* checkout, second half with an Idle entry: mark it Leased, hand out the Lease
CheckoutLease(c) ==
    /\ callerPc[c] = "selecting"
    /\ idle' = idle \ {lease[c]}
    /\ leased' = leased \cup {lease[c]}
    /\ callerPc' = [callerPc EXCEPT ![c] = "leased"]
    /\ poolLog' = "leased"
    /\ poolLock' = "free"
    /\ UNCHANGED <<lease, provisioning, retiring, closed, poolEntries,
                   overflowEntries, useCount, nextId, shutdownBegun, exitPath,
                   preRetireSize, nonPoolVars>>

\* checkout, second half with a new entry: the engine came up
ProvisionDone(c) ==
    /\ callerPc[c] = "provisioning"
    /\ provisioning' = provisioning \ {lease[c]}
    /\ leased' = leased \cup {lease[c]}
    /\ poolEntries' = IF lease[c] \in overflowEntries THEN poolEntries
                      ELSE poolEntries \cup {lease[c]}
    /\ callerPc' = [callerPc EXCEPT ![c] = "leased"]
    /\ poolLog' = IF lease[c] \in overflowEntries THEN "PoolExhaustedOverflow" ELSE "leased"
    /\ poolLock' = "free"
    /\ UNCHANGED <<lease, idle, retiring, closed, overflowEntries, useCount,
                   nextId, shutdownBegun, exitPath, preRetireSize, nonPoolVars>>

\* checkout, second half with a new entry: AcquisitionFailed, fatal to this
\* checkout only
ProvisionFail(c) ==
    /\ callerPc[c] = "provisioning"
    /\ provisioning' = provisioning \ {lease[c]}
    /\ closed' = closed \cup {lease[c]}
    /\ overflowEntries' = overflowEntries \ {lease[c]}
    /\ lease' = [lease EXCEPT ![c] = NoEntry]
    /\ callerPc' = [callerPc EXCEPT ![c] = "out"]
    /\ poolLog' = "AcquisitionFailed"
    /\ poolLock' = "free"
    /\ UNCHANGED <<idle, leased, retiring, poolEntries, useCount, nextId, shutdownBegun,
                   exitPath, preRetireSize, nonPoolVars>>

\* the page is obtained without a context manager and given back only at
\* the end of the body: every other exit path leaves without a release
PhaseExitNoContextManager(c, path) ==
    /\ callerPc[c] = "leased"
    /\ path \in ExitPaths
    /\ IF path = "returned"
       THEN /\ EnterSection(c)
            /\ callerPc' = [callerPc EXCEPT ![c] = "releasing"]
            /\ exitPath' = [exitPath EXCEPT ![c] = path]
            /\ UNCHANGED lease
       ELSE /\ callerPc' = [callerPc EXCEPT ![c] = "out"]
            /\ lease' = [lease EXCEPT ![c] = NoEntry]
            /\ UNCHANGED <<poolLock, exitPath>>
    /\ UNCHANGED <<idle, leased, provisioning, retiring, closed, poolEntries,
                   overflowEntries, useCount, nextId, shutdownBegun, poolLog,
                   preRetireSize, nonPoolVars>>

\* the body of the `async with` block of a phase is left by path: the
\* context manager's exit runs on every path, and that is where the Lease is
\* released, starting with entering the pool's section
PhaseExit(c, path) ==
    /\ callerPc[c] = "leased"
    /\ path \in ExitPaths
    /\ EnterSection(c)
    /\ callerPc' = [callerPc EXCEPT ![c] = "releasing"]
    /\ exitPath' = [exitPath EXCEPT ![c] = path]
    /\ UNCHANGED <<lease, idle, leased, provisioning, retiring, closed, poolEntries,
                   overflowEntries, useCount, nextId, shutdownBegun, poolLog,
                   preRetireSize, nonPoolVars>>

\* an entry that reached the threshold goes back to Idle like any other
ReleaseCommitReuse(c, replace) ==
    /\ callerPc[c] = "releasing"
    /\ ~replace
    /\ LET e == lease[c]
       IN  /\ useCount' = [useCount EXCEPT ![e] = IF @ < MaxUseCount THEN @ + 1 ELSE @]
           /\ leased' = leased \ {e}
           /\ IF e \in overflowEntries \/ shutdownBegun
              THEN /\ retiring' = retiring \cup {e}
                   /\ overflowEntries' = overflowEntries \ {e}
                   /\ poolEntries' = poolEntries \ {e}
                   /\ UNCHANGED idle
              ELSE /\ idle' = idle \cup {e}
                   /\ UNCHANGED <<retiring, poolEntries, overflowEntries>>
    /\ poolLog' = exitPath[c]
    /\ exitPath' = [exitPath EXCEPT ![c] = "none"]
    /\ lease' = [lease EXCEPT ![c] = NoEntry]
    /\ callerPc' = [callerPc EXCEPT ![c] = "out"]
    /\ poolLock' = "free"
    /\ UNCHANGED <<provisioning, closed, nextId, shutdownBegun, preRetireSize, nonPoolVars>>

\* release, second half: count the use; an overflow entry is closed, and so
\* is any entry once shutdown has begun; an entry that reached the threshold
\* is retired and replaced by a fresh Idle entry (when replace is TRUE: the
\* engine came up); any other entry returns to Idle
ReleaseCommit(c, replace) ==
    /\ callerPc[c] = "releasing"
    /\ LET e == lease[c]
           uses == useCount[e] + 1
       IN  /\ useCount' = [useCount EXCEPT ![e] = uses]
           /\ leased' = leased \ {e}
           /\ IF e \in overflowEntries \/ shutdownBegun
              THEN /\ retiring' = retiring \cup {e}
                   /\ overflowEntries' = overflowEntries \ {e}
                   /\ poolEntries' = poolEntries \ {e}
                   /\ ~replace
                   /\ UNCHANGED <<idle, nextId, preRetireSize>>
              ELSE IF uses >= MaxUseCount
              THEN /\ retiring' = retiring \cup {e}
                   /\ IF replace
                      THEN /\ nextId <= MaxEntries
                           /\ idle' = idle \cup {nextId}
                           /\ poolEntries' = (poolEntries \ {e}) \cup {nextId}
                           /\ nextId' = nextId + 1
                           /\ UNCHANGED preRetireSize
                      ELSE /\ poolEntries' = poolEntries \ {e}
                           /\ preRetireSize' = Cardinality(poolEntries)
                           /\ UNCHANGED <<idle, nextId>>
                   /\ UNCHANGED overflowEntries
              ELSE /\ idle' = idle \cup {e}
                   /\ ~replace
                   /\ UNCHANGED <<retiring, poolEntries, overflowEntries, nextId,
                                  preRetireSize>>
    /\ poolLog' = exitPath[c]
    /\ exitPath' = [exitPath EXCEPT ![c] = "none"]
    /\ lease' = [lease EXCEPT ![c] = NoEntry]
    /\ callerPc' = [callerPc EXCEPT ![c] = "out"]
    /\ poolLock' = "free"
    /\ UNCHANGED <<provisioning, closed, shutdownBegun, nonPoolVars>>

\* the asynchronous close of a retired entry
CloseRetired(e) ==
    /\ e \in retiring
    /\ retiring' = retiring \ {e}
    /\ closed' = closed \cup {e}
    /\ UNCHANGED <<poolLock, callerPc, lease, idle, leased, provisioning, poolEntries,
                   overflowEntries, useCount, nextId, shutdownBegun, exitPath, poolLog,
                   preRetireSize, nonPoolVars>>

\* maintain, first half: the periodic task enters the section; the task is
\* stopped by shutdown
MaintainBegin ==
    /\ ~shutdownBegun
    /\ EnterSection("maintainer")
    /\ UNCHANGED <<callerPc, lease, idle, leased, provisioning, retiring, closed,
                   poolEntries, overflowEntries, useCount, nextId, shutdownBegun,
                   exitPath, poolLog, preRetireSize, nonPoolVars>>

\* what a maintenance cycle that kept the entries kept logs
MaintainOutcomeOf(kept, expired, topUp) ==
    IF topUp THEN "topped_up"
    ELSE IF Cardinality(kept) < PoolFloor THEN "provision_failed"
    ELSE IF expired # {} THEN "evicted"
    ELSE "maintained"

\* the cycle evicts whatever entry of the list timed out, Idle or Leased
MaintainCommitAnyEntry(expired, topUp) ==
    /\ poolLock = "maintainer"
    /\ expired \subseteq (idle \cup leased) \cap poolEntries
    /\ Cardinality(poolEntries \ expired) >= PoolFloor \/ expired = {}
    /\ LET kept == poolEntries \ expired
       IN  /\ IF topUp
              THEN /\ Cardinality(kept) < PoolFloor
                   /\ nextId <= MaxEntries
                   /\ idle' = (idle \ expired) \cup {nextId}
                   /\ poolEntries' = kept \cup {nextId}
                   /\ nextId' = nextId + 1
              ELSE /\ idle' = idle \ expired
                   /\ poolEntries' = kept
                   /\ UNCHANGED nextId
           /\ poolLog' = MaintainOutcomeOf(kept, expired, topUp)
    /\ retiring' = retiring \cup expired
    /\ preRetireSize' = 0
    /\ poolLock' = "free"
    /\ UNCHANGED <<callerPc, lease, leased, provisioning, closed, overflowEntries,
                   useCount, shutdownBegun, exitPath, nonPoolVars>>

\* the cycle evicts every Idle entry that timed out, whatever the floor, and
\* does not top the list up
MaintainCommitBelowFloor(expired, topUp) ==
    /\ poolLock = "maintainer"
    /\ expired \subseteq idle
    /\ ~topUp
    /\ idle' = idle \ expired
    /\ poolEntries' = poolEntries \ expired
    /\ poolLog' = IF expired # {} THEN "evicted" ELSE "maintained"
    /\ retiring' = retiring \cup expired
    /\ preRetireSize' = 0
    /\ poolLock' = "free"
    /\ UNCHANGED <<callerPc, lease, leased, provisioning, closed, overflowEntries,
                   useCount, nextId, shutdownBegun, exitPath, nonPoolVars>>

\* maintain, second half: the Idle entries in expired have been idle longer
\* than the ceiling; evict them as far as the floor allows, then top the
\* list up to the floor (when topUp is TRUE: the engine came up)
MaintainCommit(expired, topUp) ==
    /\ poolLock = "maintainer"
    /\ expired \subseteq idle
    /\ Cardinality(poolEntries \ expired) >= PoolFloor \/ expired = {}
    /\ LET kept == poolEntries \ expired
       IN  /\ IF topUp
              THEN /\ Cardinality(kept) < PoolFloor
                   /\ nextId <= MaxEntries
                   /\ idle' = (idle \ expired) \cup {nextId}
                   /\ poolEntries' = kept \cup {nextId}
                   /\ nextId' = nextId + 1
              ELSE /\ idle' = idle \ expired
                   /\ poolEntries' = kept
                   /\ UNCHANGED nextId
           /\ poolLog' = MaintainOutcomeOf(kept, expired, topUp)
    /\ retiring' = retiring \cup expired
    /\ preRetireSize' = 0
    /\ poolLock' = "free"
    /\ UNCHANGED <<callerPc, lease, leased, provisioning, closed, overflowEntries,
                   useCount, shutdownBegun, exitPath, nonPoolVars>>

\* shutdown: inside the section, stop the maintenance cycle and close every
\* Idle entry; a Leased entry is closed when its lease is released.  A
\* second call finds the flag set and does nothing but log.
Shutdown ==
    /\ poolLock = "free"
    /\ IF shutdownBegun
       THEN /\ poolLog' = "shutdown_repeated"
            /\ UNCHANGED <<shutdownBegun, idle, retiring, poolEntries>>
       ELSE /\ shutdownBegun' = TRUE
            /\ retiring' = retiring \cup idle
            /\ poolEntries' = poolEntries \ idle
            /\ idle' = {}
            /\ poolLog' = "shutdown"
    /\ UNCHANGED <<poolLock, callerPc, lease, leased, provisioning, closed, overflowEntries,
                   useCount, nextId, exitPath, preRetireSize, nonPoolVars>>

PoolNext ==
    \/ \E c \in Callers : CheckoutBegin(c)
    \/ \E c \in Callers : CheckoutExhausted(c)
    \/ \E c \in Callers : CheckoutRejected(c)
    \/ \E c \in Callers : CheckoutLease(c)
    \/ \E c \in Callers : ProvisionDone(c)
    \/ \E c \in Callers : ProvisionFail(c)
    \/ \E c \in Callers, path \in ExitPaths : PhaseExit(c, path)
    \/ \E c \in Callers, replace \in BOOLEAN : ReleaseCommit(c, replace)
    \/ \E e \in EntryIds : CloseRetired(e)
    \/ MaintainBegin
    \/ \E expired \in SUBSET EntryIds, topUp \in BOOLEAN : MaintainCommit(expired, topUp)
    \/ Shutdown

-----------------------------------------------------------------------------
(* Interleaved runs.  analyze_website is a coroutine: between two awaits   *)
(* it runs without interruption, and other runs of the same service are    *)
(* scheduled at its awaits.  The steps below are the stretches between     *)
(* awaits that touch _analysis_count.                                      *)

Runs == 1..MaxTasks
NoId == 0

RunsInit ==
    /\ runPc = [r \in Runs |-> "new"]
    /\ analysis_id = [r \in Runs |-> NoId]

\* the counter is advanced, and read back only after a suspension point
EnterReadsAfterAwait(r, ready, valid) ==
    \/ /\ runPc[r] = "new"
       /\ ready /\ valid
       /\ analysis_count' = analysis_count + 1
       /\ runPc' = [runPc EXCEPT ![r] = "rejecting"]
       /\ UNCHANGED <<analysis_id, nonRunVars>>
    \/ /\ runPc[r] = "rejecting"
       /\ ready /\ valid
       /\ analysis_id' = [analysis_id EXCEPT ![r] = analysis_count]
       /\ runPc' = [runPc EXCEPT ![r] = "running"]
       /\ UNCHANGED <<analysis_count, nonRunVars>>

\* lines 113-137, from the call to the first await: the readiness check,
\* _normalize_url, and for a valid url `self._analysis_count += 1;
\* analysis_id = self._analysis_count` with no await in between
Enter(r, ready, valid) ==
    /\ runPc[r] = "new"
    /\ IF ~ready
       THEN /\ runPc' = [runPc EXCEPT ![r] = "raised"]
            /\ UNCHANGED <<analysis_count, analysis_id>>
       ELSE IF ~valid
       THEN /\ runPc' = [runPc EXCEPT ![r] = "rejecting"]
            /\ UNCHANGED <<analysis_count, analysis_id>>
       ELSE /\ analysis_count' = analysis_count + 1
            /\ analysis_id' = [analysis_id EXCEPT ![r] = analysis_count + 1]
            /\ runPc' = [runPc EXCEPT ![r] = "running"]
    /\ UNCHANGED nonRunVars

\* lines 120-121: the 'Invalid URL' event has been awaited, the ValueError
\* is re-raised
Reject(r) ==
    /\ runPc[r] = "rejecting"
    /\ analysis_id[r] = NoId
    /\ runPc' = [runPc EXCEPT ![r] = "raised"]
    /\ UNCHANGED <<analysis_count, analysis_id, nonRunVars>>

\* lines 137-286: the rest of the run, which reads analysis_id for its log
\* lines and the report and never writes the counter
Finish(r) ==
    /\ runPc[r] = "running"
    /\ runPc' = [runPc EXCEPT ![r] = "done"]
    /\ UNCHANGED <<analysis_count, analysis_id, nonRunVars>>

\* get_stats()["total_analyses"]
TotalAnalyses == analysis_count

RunsNext ==
    \/ \E r \in Runs, ready \in BOOLEAN, valid \in BOOLEAN : Enter(r, ready, valid)
    \/ \E r \in Runs : Reject(r)
    \/ \E r \in Runs : Finish(r)

-----------------------------------------------------------------------------
(* RateLimiter with the token-bucket strategy, for one domain, and the two *)
(* front ends that wait on it.  Token counts are floats in the code; here  *)
(* they are counted in units of 1/TokenScale token, and time in ticks, one *)
(* tick adding RatePerTick units (requests_per_second times the tick).     *)
(* time.time() is taken to be non-decreasing.                              *)

\* RateLimitConfig.burst_limit, in tokens
BurstLimit == 2
TokenScale == 2
\* RateLimitConfig.requests_per_second: half a token per tick
RatePerTick == 1

BurstUnits == BurstLimit * TokenScale

\* users of RateLimitContext (threads) and of AsyncRateLimiter (coroutines)
CtxClients == {"t1", "t2"}
AsyncClients == {"a1", "a2"}
Clients == CtxClients \cup AsyncClients

RateInit ==
    /\ now = 0
    /\ tokens = NoKey
    /\ last_update = 0
    /\ rlReturn = <<TRUE, 0>>
    /\ rlCalls = 0
    /\ clientPc = [c \in Clients |-> "out"]
    /\ wakeAt = [c \in Clients |-> 0]
    /\ asyncLock = "free"
    /\ granted = 0
    /\ proceeded = 0

\* lines 179-190: the bucket after initialisation and refill at time t
Refilled(tok, last, t) ==
    LET start == IF tok = NoKey THEN BurstUnits ELSE tok
        since == IF tok = NoKey THEN t ELSE last
    IN  Min(BurstUnits, start + (t - since) * RatePerTick)

\* the refill is not capped at burst_limit
CheckTokenBucketUncapped ==
    LET start == IF tokens = NoKey THEN BurstUnits ELSE tokens
        since == IF tokens = NoKey THEN now ELSE last_update
        filled == start + (now - since) * RatePerTick
    IN  /\ rlCalls < MaxCalls
        /\ rlCalls' = rlCalls + 1
        /\ last_update' = now
        /\ IF filled >= TokenScale
           THEN /\ tokens' = filled - TokenScale
                /\ rlReturn' = <<TRUE, 0>>
                /\ granted' = granted + 1
           ELSE /\ tokens' = filled
                /\ rlReturn' = <<FALSE, (TokenScale - filled) \div RatePerTick>>
                /\ granted' = granted

\* can_proceed with TOKEN_BUCKET, lines 72-74 and 174-200, under self._lock:
\* initialise, refill, then take one token or compute the delay
CheckTokenBucket ==
    LET filled == Refilled(tokens, last_update, now)
    IN  /\ rlCalls < MaxCalls
        /\ rlCalls' = rlCalls + 1
        /\ last_update' = now
        /\ IF filled >= TokenScale
           THEN /\ tokens' = filled - TokenScale
                /\ rlReturn' = <<TRUE, 0>>
                /\ granted' = granted + 1
           ELSE /\ tokens' = filled
                /\ rlReturn' = <<FALSE, (TokenScale - filled) \div RatePerTick>>
                /\ granted' = granted

\* a caller that only asks the limiter
CanProceed ==
    /\ CheckTokenBucket
    /\ UNCHANGED <<now, clientPc, wakeAt, asyncLock, proceeded, nonRateVars>>

\* RateLimitContext.__enter__, lines 310-317: ask the limiter; when refused,
\* time.sleep(delay); then go on with the request
CtxEnter(c) ==
    /\ c \in CtxClients
    /\ clientPc[c] = "out"
    /\ CheckTokenBucket
    /\ IF rlReturn'[1]
       THEN /\ clientPc' = [clientPc EXCEPT ![c] = "proceeding"]
            /\ proceeded' = proceeded + 1
            /\ UNCHANGED wakeAt
       ELSE /\ clientPc' = [clientPc EXCEPT ![c] = "sleeping"]
            /\ wakeAt' = [wakeAt EXCEPT ![c] = now + rlReturn'[2]]
            /\ UNCHANGED proceeded
    /\ UNCHANGED <<now, asyncLock, nonRateVars>>

\* the sleep of __enter__ is over: start_time is taken and the body runs
CtxWake(c) ==
    /\ c \in CtxClients
    /\ clientPc[c] = "sleeping"
    /\ now >= wakeAt[c]
    /\ clientPc' = [clientPc EXCEPT ![c] = "proceeding"]
    /\ proceeded' = proceeded + 1
    /\ UNCHANGED <<now, tokens, last_update, rlReturn, rlCalls, wakeAt, asyncLock, granted,
                   nonRateVars>>

\* AsyncRateLimiter.wait_if_needed, lines 287-292: inside the asyncio lock
\* ask the limiter; when refused, asyncio.sleep(delay) with the lock held
WaitIfNeeded(c) ==
    /\ c \in AsyncClients
    /\ clientPc[c] = "out"
    /\ asyncLock = "free"
    /\ CheckTokenBucket
    /\ IF rlReturn'[1]
       THEN /\ clientPc' = [clientPc EXCEPT ![c] = "proceeding"]
            /\ proceeded' = proceeded + 1
            /\ UNCHANGED <<wakeAt, asyncLock>>
       ELSE /\ clientPc' = [clientPc EXCEPT ![c] = "sleeping"]
            /\ wakeAt' = [wakeAt EXCEPT ![c] = now + rlReturn'[2]]
            /\ asyncLock' = c
            /\ UNCHANGED proceeded
    /\ UNCHANGED <<now, nonRateVars>>

\* the sleep of wait_if_needed is over: the lock is released and the caller
\* goes on with its request
WaitWake(c) ==
    /\ c \in AsyncClients
    /\ clientPc[c] = "sleeping"
    /\ now >= wakeAt[c]
    /\ clientPc' = [clientPc EXCEPT ![c] = "proceeding"]
    /\ asyncLock' = "free"
    /\ proceeded' = proceeded + 1
    /\ UNCHANGED <<now, tokens, last_update, rlReturn, rlCalls, wakeAt, granted,
                   nonRateVars>>

\* the request is over (__exit__ / record_request: history and response
\* times only, the bucket is not touched)
RequestDone(c) ==
    /\ clientPc[c] = "proceeding"
    /\ clientPc' = [clientPc EXCEPT ![c] = "out"]
    /\ UNCHANGED <<now, tokens, last_update, rlReturn, rlCalls, wakeAt, asyncLock, granted,
                   proceeded, nonRateVars>>

\* time passes
Tick ==
    /\ now < MaxTime
    /\ now' = now + 1
    /\ UNCHANGED <<tokens, last_update, rlReturn, rlCalls, clientPc, wakeAt, asyncLock,
                   granted, proceeded, nonRateVars>>

RateNext ==
    \/ CanProceed
    \/ \E c \in CtxClients : CtxEnter(c)
    \/ \E c \in CtxClients : CtxWake(c)
    \/ \E c \in AsyncClients : WaitIfNeeded(c)
    \/ \E c \in AsyncClients : WaitWake(c)
    \/ \E c \in Clients : RequestDone(c)
    \/ Tick

-----------------------------------------------------------------------------
(* CacheService over one of its backends.  An item is the part of a        *)
(* CacheItem that decides what the cache does: key, created_at, ttl.       *)

CacheBackends == {"memory", "disk", "sqlite", "hybrid"}

\* _create_backend: HYBRID is a MemoryCache as well
IsMemoryCache(b) == b \in {"memory", "hybrid"}

CacheKeys == {"k1", "k2", "k3"}

\* ttl arguments of set: 0 never expires
Ttls == {0, 1}

\* CacheConfig.max_size of the memory backend
MaxSize == 2

NoItem == [key |-> "<none>", created_at |-> 0, ttl |-> 0]

CacheItem(k, t, ttl) == [key |-> k, created_at |-> t, ttl |-> ttl]

CacheInit ==
    /\ cacheBackend = "none"
    /\ store = <<>>
    /\ cacheTime = 0
    /\ stats = [hits |-> 0, misses |-> 0, sets |-> 0, deletes |-> 0, evictions |-> 0]
    /\ getReturn = NoItem
    /\ cacheOps = 0
    /\ lastOp = <<"none", "<none>">>
    /\ lruOrder = <<>>

\* the keys of a sequence of items
KeysOf(items) == {items[i].key : i \in 1..Len(items)}

\* self._cache[key]
ItemOf(items, k) == items[CHOOSE i \in 1..Len(items) : items[i].key = k]

\* del self._cache[key]
Without(items, k) == SelectSeq(items, LAMBDA it : it.key # k)

\* a sequence of keys without key k
KeysWithout(ks, k) == SelectSeq(ks, LAMBDA x : x # k)

\* the ttl is not looked at
IsExpiredIgnoresTtl(item, t) == FALSE

\* CacheItem.is_expired at time t
IsExpired(item, t) ==
    IF item.ttl <= 0 THEN FALSE ELSE t - item.created_at > item.ttl

\* CacheService.__init__ / _create_backend
Configure(b) ==
    /\ cacheBackend = "none"
    /\ b \in CacheBackends
    /\ cacheBackend' = b
    /\ UNCHANGED <<store, cacheTime, stats, getReturn, cacheOps, lastOp, lruOrder,
                   nonCacheVars>>

\* a get leaves the item where it is in the OrderedDict
BackendGetNoTouch(items, k, t) ==
    IF k \notin KeysOf(items) THEN items
    ELSE IF IsExpired(ItemOf(items, k), t) THEN Without(items, k)
    ELSE items

\* the backend after get(k) at time t: an expired item is removed; the
\* memory backend moves a live item to the end, disk and SQLite rewrite it
\* in place
BackendGet(items, k, t) ==
    IF k \notin KeysOf(items) THEN items
    ELSE IF IsExpired(ItemOf(items, k), t) THEN Without(items, k)
    ELSE IF IsMemoryCache(cacheBackend) THEN Append(Without(items, k), ItemOf(items, k))
    ELSE items

\* CacheService.get, lines 392-409, with the get of the backend
CacheGet(k) ==
    /\ cacheBackend # "none"
    /\ cacheOps < MaxOps
    /\ LET found == k \in KeysOf(store) /\ ~IsExpired(ItemOf(store, k), cacheTime)
       IN  /\ getReturn' = IF found THEN ItemOf(store, k) ELSE NoItem
           /\ stats' = IF found THEN [stats EXCEPT !.hits = @ + 1]
                                 ELSE [stats EXCEPT !.misses = @ + 1]
           /\ lruOrder' = IF found THEN Append(KeysWithout(lruOrder, k), k)
                                    ELSE KeysWithout(lruOrder, k)
    /\ store' = BackendGet(store, k, cacheTime)
    /\ cacheOps' = cacheOps + 1
    /\ lastOp' = <<"get", k>>
    /\ UNCHANGED <<cacheBackend, cacheTime, nonCacheVars>>

\* MemoryCache.set, lines 128-141
MemorySet(items, item) ==
    LET added == Append(Without(items, item.key), item)
    IN  IF Len(added) > MaxSize
        THEN SubSeq(added, Len(added) - MaxSize + 1, Len(added))
        ELSE added

\* DiskCache.set / SQLiteCache.set: the file or row of the key is replaced
PersistentSet(items, item) ==
    IF item.key \in KeysOf(items)
    THEN [i \in 1..Len(items) |-> IF items[i].key = item.key THEN item ELSE items[i]]
    ELSE Append(items, item)

\* CacheService.set, lines 411-438
CacheSet(k, ttl) ==
    /\ cacheBackend # "none"
    /\ cacheOps < MaxOps
    /\ LET item == CacheItem(k, cacheTime, ttl)
       IN  store' = IF IsMemoryCache(cacheBackend) THEN MemorySet(store, item)
                    ELSE PersistentSet(store, item)
    /\ stats' = [stats EXCEPT !.sets = @ + 1]
    /\ lruOrder' = SelectSeq(Append(KeysWithout(lruOrder, k), k),
                             LAMBDA x : x \in KeysOf(store'))
    /\ cacheOps' = cacheOps + 1
    /\ lastOp' = <<"set", k>>
    /\ UNCHANGED <<cacheBackend, cacheTime, getReturn, nonCacheVars>>

\* CacheService.delete, lines 440-454
CacheDelete(k) ==
    /\ cacheBackend # "none"
    /\ cacheOps < MaxOps
    /\ store' = Without(store, k)
    /\ stats' = IF k \in KeysOf(store) THEN [stats EXCEPT !.deletes = @ + 1] ELSE stats
    /\ lruOrder' = KeysWithout(lruOrder, k)
    /\ cacheOps' = cacheOps + 1
    /\ lastOp' = <<"delete", k>>
    /\ UNCHANGED <<cacheBackend, cacheTime, getReturn, nonCacheVars>>

\* _cleanup_expired, lines 549-561, run by the cleanup thread after each
\* cleanup_interval: a DELETE for the SQLite backend, nothing for the others
CleanupExpired ==
    /\ cacheBackend # "none"
    /\ cacheOps < MaxOps
    /\ IF cacheBackend = "sqlite"
       THEN LET kept == SelectSeq(store,
                          LAMBDA it : ~(it.ttl > 0 /\ it.created_at + it.ttl < cacheTime))
            IN  /\ store' = kept
                /\ stats' = [stats EXCEPT !.evictions = @ + (Len(store) - Len(kept))]
                /\ lruOrder' = SelectSeq(lruOrder, LAMBDA x : x \in KeysOf(kept))
       ELSE UNCHANGED <<store, stats, lruOrder>>
    /\ cacheOps' = cacheOps + 1
    /\ lastOp' = <<"cleanup", "<none>">>
    /\ UNCHANGED <<cacheBackend, cacheTime, getReturn, nonCacheVars>>

\* time passes
CacheTick ==
    /\ cacheTime < MaxCacheTime
    /\ cacheTime' = cacheTime + 1
    /\ UNCHANGED <<cacheBackend, store, stats, getReturn, cacheOps, lastOp, lruOrder,
                   nonCacheVars>>

CacheNext ==
    \/ \E b \in CacheBackends : Configure(b)
    \/ \E k \in CacheKeys : CacheGet(k)
    \/ \E k \in CacheKeys, ttl \in Ttls : CacheSet(k, ttl)
    \/ \E k \in CacheKeys : CacheDelete(k)
    \/ CleanupExpired
    \/ CacheTick

-----------------------------------------------------------------------------
(* perform_background_analysis, one run per session, and the websocket     *)
(* ConnectionManager its events go through.                                *)

Sessions == {"s1", "s2"}

\* the dict handed to manager.send_progress
Event(stage, percent, carried) ==
    [stage |-> stage, progress |-> percent, results |-> carried]

\* the except branch of perform_background_analysis, lines 489-496
ErrorEvent == Event("Error", 0, FALSE)

BgInit ==
    /\ bgPc = [s \in Sessions |-> "idle"]
    /\ db = [s \in Sessions |-> "none"]
    /\ active_connections = {}
    /\ bgEvents = [s \in Sessions |-> <<>>]
    /\ delivered = [s \in Sessions |-> <<>>]

\* manager.send_progress for each event of evs: sent only to a session that
\* has a websocket
SendProgressTo(s, evs) ==
    /\ bgEvents' = [bgEvents EXCEPT ![s] = @ \o evs]
    /\ delivered' = IF s \in active_connections
                     THEN [delivered EXCEPT ![s] = @ \o evs]
                     ELSE delivered

\* the end of a run: finally closes the database session if there is one
BgEnd(s) ==
    /\ bgPc' = [bgPc EXCEPT ![s] = "done"]
    /\ db' = [db EXCEPT ![s] = IF @ = "open" THEN "closed" ELSE @]

\* an exception inside the try block: the Error event, then finally
BgFail(s, before) ==
    /\ SendProgressTo(s, before \o <<ErrorEvent>>)
    /\ BgEnd(s)

\* websocket_endpoint: manager.connect
Connect(s) ==
    /\ s \notin active_connections
    /\ active_connections' = active_connections \cup {s}
    /\ UNCHANGED <<bgPc, db, bgEvents, delivered, nonBgVars>>

\* manager.disconnect, on WebSocketDisconnect or a failed send_json
Disconnect(s) ==
    /\ s \in active_connections
    /\ active_connections' = active_connections \ {s}
    /\ UNCHANGED <<bgPc, db, bgEvents, delivered, nonBgVars>>

\* lines 423-442: the database session and the first event; get_db may raise
BgStart(s, dbOk) ==
    /\ bgPc[s] = "idle"
    /\ IF dbOk
       THEN /\ db' = [db EXCEPT ![s] = "open"]
            /\ bgPc' = [bgPc EXCEPT ![s] = "analyzing"]
            /\ SendProgressTo(s, <<Event("Starting analysis...", 0, FALSE)>>)
       ELSE BgFail(s, <<>>)
    /\ UNCHANGED <<active_connections, nonBgVars>>

\* lines 446-451: analyze_website returns after its own last event, or
\* raises after its own failure event
BgAnalyze(s, ok) ==
    /\ bgPc[s] = "analyzing"
    /\ IF ok
       THEN /\ SendProgressTo(s, <<Event("Analysis complete!", 100, FALSE)>>)
            /\ bgPc' = [bgPc EXCEPT ![s] = "analyzed"]
            /\ UNCHANGED db
       ELSE BgFail(s, <<Event("Analysis failed", 0, FALSE)>>)
    /\ UNCHANGED <<active_connections, nonBgVars>>

\* lines 457-468: save_analysis, then the 'Complete!' progress event
BgSave(s, ok) ==
    /\ bgPc[s] = "analyzed"
    /\ IF ok
       THEN /\ SendProgressTo(s, <<Event("Complete!", 100, FALSE)>>)
            /\ bgPc' = [bgPc EXCEPT ![s] = "completed"]
            /\ UNCHANGED db
       ELSE BgFail(s, <<>>)
    /\ UNCHANGED <<active_connections, nonBgVars>>

\* lines 470-481: build_analysis_response and response.dict(), either of
\* which may raise, then the event that carries the results
BgRespond(s, ok) ==
    /\ bgPc[s] = "completed"
    /\ IF ok
       THEN /\ SendProgressTo(s, <<Event("Complete!", 100, TRUE)>>)
            /\ BgEnd(s)
       ELSE BgFail(s, <<>>)
    /\ UNCHANGED <<active_connections, nonBgVars>>

BgNext ==
    \/ \E s \in Sessions : Connect(s)
    \/ \E s \in Sessions : Disconnect(s)
    \/ \E s \in Sessions, dbOk \in BOOLEAN : BgStart(s, dbOk)
    \/ \E s \in Sessions, ok \in BOOLEAN : BgAnalyze(s, ok)
    \/ \E s \in Sessions, ok \in BOOLEAN : BgSave(s, ok)
    \/ \E s \in Sessions, ok \in BOOLEAN : BgRespond(s, ok)

-----------------------------------------------------------------------------
Init ==
    /\ PipelineInit /\ CalcInit /\ SecInit /\ PoolInit /\ RunsInit /\ RateInit /\ CacheInit
    /\ BgInit

PipelineSpec == Init /\ [][PipelineNext]_vars

\* the event loop's timer fires for a pending wait_for, and the orchestrator's
\* own straight-line code runs; nothing is assumed about an analyzer's work
FairPipelineSpec ==
    /\ PipelineSpec
    /\ WF_vars(\E p \in Phases, failed \in BOOLEAN : PhaseTimeout(p, failed))
    /\ WF_vars(\E failed \in BOOLEAN : Aggregate(failed) \/ AggregateFail(failed))

RunsSpec == Init /\ [][RunsNext]_vars

RateSpec == Init /\ [][RateNext]_vars

CacheSpec == Init /\ [][CacheNext]_vars

BgSpec == Init /\ [][BgNext]_vars

CalcSpec == Init /\ [][CalcNext]_vars

SecSpec == Init /\ [][SecNext]_vars

PoolSpec == Init /\ [][PoolNext]_vars

-----------------------------------------------------------------------------
(* Properties of the orchestrator *)

Abs(x) == IF x < 0 THEN 0 - x ELSE x

\* C1: with the service ready and a valid url analyze_website never raises,
\* and the report it returns holds, for each of the four phases, the one
\* result recorded for it
C1_AlwaysCompleteReport ==
    /\ (service_ready /\ url_valid) => pc # "raised"
    /\ pc = "done" =>
         /\ report.kind = "report"
         /\ DOMAIN report.phases = Phases
         /\ \A p \in Phases : report.phases[p] = results[p] /\ settled[p] = 1

\* a finished run in which one phase timed out and another returned its own
\* failure result
C1_Witness ==
    /\ pc = "done"
    /\ url_valid
    /\ returned["security"] = NoReturn
    /\ returned["seo"] = SeoErrorResult
    /\ report.phases["security"].error = TimeoutMessage("security")

\* C2: the phases are started in pipeline order, each exactly once, whatever
\* happened to the earlier ones, and the aggregation happens only after all
\* four have settled
C2_PipelineOrder ==
    /\ Len(started) <= 4
    /\ \A i \in 1..Len(started) : started[i] = PhaseOrder[i]
    /\ pc \in Phases =>
         /\ Len(started) = PhaseIndex(pc)
         /\ \A q \in Phases : settled[q] = IF PhaseIndex(q) < PhaseIndex(pc) THEN 1 ELSE 0
    /\ pc \in {"aggregate", "done"} =>
         /\ started = PhaseOrder
         /\ \A q \in Phases : settled[q] = 1
    /\ scoreArgs # <<>> => \A q \in Phases : settled[q] = 1

\* the mobile phase is running although speed timed out and SEO failed
C2_Witness ==
    /\ pc = "mobile"
    /\ returned["speed"] = NoReturn
    /\ HasError(results["speed"])
    /\ HasError(results["seo"])
    /\ started = PhaseOrder

\* C3: every phase whose recorded result has an 'error' entry enters the
\* aggregation with score 0
C3_FailedPhaseScoresZero ==
    pc = "done" =>
        \A i \in 1..4 : HasError(results[PhaseOrder[i]]) => scoreArgs[i] = 0

\* C5: the score a phase computed when it completed without failure is the
\* score passed to the aggregation for that phase
C5_ComputedScoreAggregated ==
    pc = "done" =>
        \A i \in 1..4 :
            LET p == PhaseOrder[i]
            IN  (returned[p] # NoReturn /\ ~HasError(returned[p]))
                    => scoreArgs[i] = ComputedScore(p, returned[p])

\* C6: a run that is in a phase always gets to the end, also when the work
\* of the phase never returns
C6_RunTerminates ==
    \A p \in Phases : (pc = p) ~> (pc = "done")

\* a finished run in which the speed phase never returned and was cut off by
\* its timer, and the later phases were still run
C6_Witness ==
    /\ pc = "done"
    /\ returned["speed"] = NoReturn
    /\ results["speed"].error = TimeoutMessage("speed")
    /\ results["speed"].score = 0
    /\ \A q \in Phases : settled[q] = 1

\* C21: analyze_website raises only when the service is not ready or the
\* url is invalid, and then nothing of a run has happened: no phase was
\* started or recorded, no report exists and the run counter is where it
\* was; for an invalid url the callback got the one event with percent 0;
\* a run that ends otherwise ends with a report
C21_ErrorOnlyOnTotalFailure ==
    [][/\ pc' = "raised"
            => /\ ~service_ready' \/ ~url_valid'
               /\ analysis_count' = analysis_count
               /\ started' = <<>>
               /\ \A p \in Phases : settled'[p] = 0 /\ results'[p] = FallbackResult
               /\ report' = NoReport
               /\ progress' = IF service_ready' /\ callback' # "none" THEN <<0>> ELSE <<>>
       /\ (service_ready' /\ url_valid') => pc' # "raised"
       /\ pc' = "done" => report'.kind = "report" /\ report'.analysis_id = analysis_count'
       /\ (pc' \in Phases /\ pc \notin Phases) => analysis_count' = analysis_count + 1]_vars

\* after a run that got id 1, a run with an invalid url has raised: the
\* callback received the error event and the counter is still 1
C21_Witness ==
    /\ pc = "raised"
    /\ service_ready
    /\ ~url_valid
    /\ progress = <<0>>
    /\ analysis_count = 1
    /\ started = <<>>

\* C22: a phase that was cancelled while in flight is recorded with score 0
\* and the reason '... was cancelled', exactly once; the run does not raise,
\* the phase after it is started, and the report of the finished run
\* carries that entry
C22_CancellationDegradesPhase ==
    /\ (service_ready /\ url_valid) => pc # "raised"
    /\ \A p \in Phases :
         results[p].error = CancelMessage(p)
            => /\ results[p].score = 0
               /\ returned[p] = NoReturn
               /\ settled[p] = 1
               /\ pc \in (Phases \ {p}) \cup {"aggregate", "done"}
               /\ Len(started) >= IF p = "mobile" THEN 4 ELSE PhaseIndex(p) + 1
               /\ pc = "done" => /\ report.kind = "report"
                                 /\ report.phases[p].error = CancelMessage(p)
                                 /\ started = PhaseOrder

\* a finished run whose speed phase was cancelled and whose later phases
\* were run, one of them returning a score
C22_Witness ==
    /\ pc = "done"
    /\ results["speed"].error = CancelMessage("speed")
    /\ returned["seo"] # NoReturn
    /\ ~HasError(results["seo"])
    /\ report.kind = "report"
    /\ report.fatal_error = NoError

\* the runs that passed the url validation
Validated(pcs) == {r \in Runs : pcs[r] \in {"running", "done"}}

\* C23: with runs interleaved at their awaits, the runs that passed the
\* validation hold pairwise distinct ids, the counter equals their number
\* (the ids are 1..counter), a run that did not pass holds none, and each id
\* handed out is larger than every id handed out before
C23_DistinctIncreasingIds ==
    [][/\ \A r1, r2 \in Validated(runPc') : r1 # r2 => analysis_id'[r1] # analysis_id'[r2]
       /\ TotalAnalyses' = Cardinality(Validated(runPc'))
       /\ {analysis_id'[r] : r \in Validated(runPc')} = 1..TotalAnalyses'
       /\ \A r \in Runs \ Validated(runPc') : analysis_id'[r] = NoId
       /\ \A r \in Runs :
            analysis_id'[r] # analysis_id[r]
               => /\ analysis_id[r] = NoId
                  /\ \A q \in Runs : analysis_id[q] < analysis_id'[r]]_vars

\* three runs in flight at once: the one entered last was rejected for its
\* url, the other two got their ids in the opposite order of their creation
C23_Witness ==
    /\ runPc[3] = "raised"
    /\ analysis_id[2] = 1
    /\ analysis_id[1] = 2
    /\ runPc[1] = "running"
    /\ runPc[2] = "running"
    /\ TotalAnalyses = 2

-----------------------------------------------------------------------------
(* Properties of the progress stream *)

\* percent of the event sent before the analyzer of phase p is awaited
BeforePercent(p) ==
    CASE p = "speed"    -> 10
      [] p = "seo"      -> 30
      [] p = "security" -> 55
      [] p = "mobile"   -> 80

\* percent of the event sent after phase p settled (success or failure)
AfterPercent(p) ==
    CASE p = "speed"    -> 25
      [] p = "seo"      -> 50
      [] p = "security" -> 75
      [] p = "mobile"   -> 90

\* positions of percent x in the events of the current run
Positions(x) == {i \in 1..Len(progress) : progress[i] = x}

C18_BeforeAndAfterEachPhase ==
    callback # "none" =>
        /\ pc \in Phases => progress[Len(progress)] = BeforePercent(pc)
        /\ pc = "done" =>
              \A p \in Phases :
                  /\ Cardinality(Positions(BeforePercent(p))) = 1
                  /\ Cardinality(Positions(AfterPercent(p))) = 1
                  /\ \A i \in Positions(BeforePercent(p)), j \in Positions(AfterPercent(p)) : i < j

\* C19: when invocations of the callback raised, the run still does not
\* raise, every phase was run and recorded the result its analyzer returned
\* (or the fallback of a timeout or cancellation), and the report is made of those results and of
\* the score aggregated from them, as with a callback that never raises
C19_SinkFailureContained ==
    sink_raised =>
        /\ (service_ready /\ url_valid) => pc # "raised"
        /\ pc = "done" =>
              /\ started = PhaseOrder
              /\ \A p \in Phases :
                    /\ settled[p] = 1
                    /\ returned[p] # NoReturn => results[p] = returned[p]
                    /\ returned[p] = NoReturn =>
                          results[p] \in {[FallbackResult EXCEPT !.error = TimeoutMessage(p)],
                                          [FallbackResult EXCEPT !.error = CancelMessage(p)]}
              /\ scoreArgs = [i \in 1..4 |-> GetScore(results[PhaseOrder[i]])]
              /\ report.phases = results
              /\ report.fatal_error \in {NoError, "aggregation failed"}
              /\ report.fatal_error = NoError =>
                    report.overall_score \in
                        OverallScores(scoreArgs[1], scoreArgs[2], scoreArgs[3], scoreArgs[4])

\* a run with a synchronous callback that raised finished with a regular
\* report, all four analyzers having returned
C19_Witness ==
    /\ pc = "done"
    /\ callback = "sync"
    /\ sink_raised
    /\ report.fatal_error = NoError
    /\ \A p \in Phases : returned[p] # NoReturn
    /\ Len(progress) = 11

-----------------------------------------------------------------------------
(* Properties of the security fan-out *)

\* the score of a probe as the scoring functions read it from its dictionary
ProbeScore(p, a) ==
    CASE p = "ssl"     -> CalculateSslScore(a)
      [] p = "headers" -> CalculateHeadersScore(a)
      [] p = "https"   -> CalculateHttpsScore(a)
      [] p = "cookie"  -> CalculateCookieScore(a)

\* the SSL dictionary reports a connection-level failure
SslConnectionFailed ==
    /\ ~secResult.analysis["ssl"].certificate_found
    /\ ContainsKeyword(secResult.analysis["ssl"].error)

\* C7: whenever the connectivity probe reports can_fetch_content false,
\* every dependent probe result in the returned set is a failed result
C7_UnreachableForcesFailed ==
    (secPc = "done" /\ ~can_fetch_content) =>
        \A p \in Dependents : secResult.analysis[p].error # NoError

\* C7 (amended): whenever the connectivity probe reports can_fetch_content
\* false and the SSL result is a connection failure, every dependent probe
\* result is the failed result of the cascade, whatever the probe returned
C7_CascadeForcesFailed ==
    (secPc = "done" /\ ~can_fetch_content /\ SslConnectionFailed) =>
        \A p \in Dependents : secResult.analysis[p] = CreateFailed(p, CascadeMessage)

\* the cascade overwrote three dependent probes that had all succeeded
C7_Witness ==
    /\ secPc = "done"
    /\ ~can_fetch_content
    /\ SslConnectionFailed
    /\ \A p \in Dependents : gathered[p].kind = "value" /\ gathered[p].payload.error = NoError
    /\ \A p \in Dependents : secResult.analysis[p].error = CascadeMessage

\* C8: analyze returns a result for all four probes; each probe that raised
\* is a failed result carrying its error; when no correlation rule fires,
\* each probe that did not raise carries exactly the payload it returned
C8_RaisedCarryOwnError ==
    secPc = "done" =>
        /\ secResult.kind = "result"
        /\ DOMAIN secResult.analysis = Probes
        /\ \A p \in Probes : gathered[p].kind = "exception" =>
               secResult.analysis[p] = CreateFailed(p, gathered[p].msg)
        /\ ~SslConnectionFailed =>
               \A p \in Probes : gathered[p].kind = "value" =>
                   secResult.analysis[p] = gathered[p].payload

\* C8 (amended): as C8, except that a dependent probe that raised carries
\* the cascade's error instead of its own when the cascade rule fired
C8_FanOutIsolation ==
    secPc = "done" =>
        /\ secResult.kind = "result"
        /\ DOMAIN secResult.analysis = Probes
        /\ \A p \in Probes : gathered[p].kind = "exception" =>
               secResult.analysis[p] =
                   CreateFailed(p, IF p \in Dependents /\ SslConnectionFailed /\ ~can_fetch_content
                                   THEN CascadeMessage ELSE gathered[p].msg)
        /\ ~SslConnectionFailed =>
               \A p \in Probes : gathered[p].kind = "value" =>
                   secResult.analysis[p] = gathered[p].payload

\* the second probe raised, the other three returned, no rule fired
C8_Witness ==
    /\ secPc = "done"
    /\ gathered["headers"].kind = "exception"
    /\ \A p \in Probes \ {"headers"} : gathered[p].kind = "value"
    /\ ~SslConnectionFailed
    /\ secResult.analysis["headers"].error = gathered["headers"].msg
    /\ secResult.analysis["https"] = gathered["https"].payload

\* C9: reachable target, SSL connection failure: every dependent probe that
\* completed without error keeps its result, has its score halved (rounded
\* down) and carries a reduced-confidence warning
C9_ReducedConfidenceTier ==
    (secPc = "done" /\ can_fetch_content /\ SslConnectionFailed) =>
        \A p \in Dependents :
            (gathered[p].kind = "value" /\ gathered[p].payload.error = NoError) =>
                /\ secResult.analysis[p].error = NoError
                /\ secResult.score_breakdown[p] = ProbeScore(p, gathered[p].payload) \div 2
                /\ secResult.analysis[p].confidence_warning # NoWarning

\* C20: a result of the correlation pass exists only when all four probes
\* of the fan-out have settled, by returning or by raising; while the
\* fan-out is pending nothing has been overwritten or downgraded
C20_CorrelationAfterAllSettled ==
    /\ secResult.kind = "result" => \A p \in Probes : gathered[p] # Pending
    /\ secPc = "fanout" => secResult = NoResult
    /\ secPc = "done" =>
          /\ secResult # NoResult
          /\ \A p \in Probes : gathered[p].kind \in {"value", "exception"}

\* the cascade has overwritten the dependent probes, one of which had
\* settled by raising and one by returning without error
C20_Witness ==
    /\ secPc = "done"
    /\ ~can_fetch_content
    /\ SslConnectionFailed
    /\ gathered["headers"].kind = "exception"
    /\ gathered["https"].kind = "value"
    /\ gathered["https"].payload.error = NoError
    /\ secResult.analysis["https"].error = CascadeMessage

\* C24: analyze never raises; whatever the four probes did, returning a
\* result or an error result or raising, what it returns has a score that is
\* an integer in 0..100, and what it returns when its own processing failed
\* is the error result, with score 0 and an 'error' entry
C24_AlwaysScoredResult ==
    /\ secPc # "raised"
    /\ secPc = "done" => /\ secResult.kind = "result"
                         /\ secResult.score \in 0..100
    /\ secPc = "failed" => /\ secResult.kind = "error"
                           /\ secResult.score = 0
                           /\ secResult.error # NoError
    /\ (secPc = "fanout" /\ \A p \in Probes : gathered[p] # Pending)
          => \A csp \in CspReturns : ENABLED SecFinish(csp)

\* all four probes raised and analyze returned a scored result
C24_Witness ==
    /\ secPc = "done"
    /\ \A p \in Probes : gathered[p].kind = "exception"
    /\ secResult.score \in 0..100
    /\ secResult.analysis["ssl"].error \in ExceptionMessages

-----------------------------------------------------------------------------
(* Properties of the resource pool *)

\* entries created so far
Created == 1..(nextId - 1)

\* the positions of a caller at which it holds a Lease
Holding == {"leased", "releasing"}

\* C10: every entry is in exactly one state, no two Leases refer to the
\* same entry, and every Leased entry has exactly one holder
C10_ExclusiveLease ==
    /\ \A e \in Created :
         Cardinality({S \in {"Idle", "Leased", "Provisioning", "Retiring", "Closed"} :
                        \/ S = "Idle" /\ e \in idle
                        \/ S = "Leased" /\ e \in leased
                        \/ S = "Provisioning" /\ e \in provisioning
                        \/ S = "Retiring" /\ e \in retiring
                        \/ S = "Closed" /\ e \in closed}) = 1
    /\ \A c1, c2 \in Callers :
         (c1 # c2 /\ callerPc[c1] \in Holding /\ callerPc[c2] \in Holding)
             => lease[c1] # lease[c2]
    /\ \A e \in leased :
         Cardinality({c \in Callers : callerPc[c] \in Holding /\ lease[c] = e}) = 1
    /\ \A c \in Callers : callerPc[c] \in Holding => lease[c] \in leased

\* two callers hold Leases at the same time while the maintenance task is
\* inside the section and a third caller has just been served
C10_Witness ==
    /\ Cardinality({c \in Callers : callerPc[c] = "leased"}) >= 2
    /\ poolLock = "maintainer"
    /\ Cardinality(leased) >= 2

\* the callers that hold a Lease in the state given by the position function
Holders(pcs) == {c \in Callers : pcs[c] \in Holding}

C12_MaintainSparesLeased ==
    [][(poolLock = "maintainer" /\ poolLock' # "maintainer")
          => /\ leased' = leased
             /\ lease' = lease
             /\ (retiring' \ retiring) \subseteq idle
             /\ (poolEntries \ poolEntries') \subseteq idle
             /\ leased' \cap (retiring' \cup closed') = {}
             /\ (leased \cap poolEntries) \subseteq poolEntries']_vars

\* a cycle has just evicted an Idle entry while a Lease on a steady-state
\* entry is outstanding
C12_Witness ==
    /\ poolLog = "evicted"
    /\ leased # {}
    /\ leased \subseteq poolEntries
    /\ \E e \in retiring : useCount[e] < MaxUseCount /\ e \notin overflowEntries

\* the release of caller c completes in this step
Released(c) == callerPc[c] = "releasing" /\ callerPc'[c] = "out"

\* what a release does to its entry: below the threshold the entry returns
\* to Idle, where the next checkout can take it; at the threshold it is
\* retired and leaves the entry list; no entry at the threshold is Idle or
\* Leased, and a retired entry never comes back
ReuseOrRetire ==
    /\ \A c \in Callers :
         (Released(c) /\ lease[c] \notin overflowEntries /\ ~shutdownBegun)
            => IF useCount'[lease[c]] < MaxUseCount
               THEN lease[c] \in idle' /\ lease[c] \in poolEntries'
               ELSE lease[c] \in retiring' /\ lease[c] \notin poolEntries'
    /\ \A e \in idle' \cup leased' : useCount'[e] < MaxUseCount
    /\ (retiring \cup closed) \subseteq (retiring' \cup closed')

MaintainEnds == poolLock = "maintainer" /\ poolLock' # "maintainer"

\* C14: a maintenance cycle whose provisioning did not fail ends with at
\* least the floor in the entry list, and a cycle that evicts ends at the
\* floor or above; a cycle whose provisioning failed takes nothing from the
\* pool and frees the section, after which checkouts are served and the
\* next cycle can start
C14_FloorKept ==
    [][/\ MaintainEnds
            => /\ poolLog' # "provision_failed" => Cardinality(poolEntries') >= PoolFloor
               /\ poolEntries \ poolEntries' # {} => Cardinality(poolEntries') >= PoolFloor
               /\ poolLog' = "provision_failed"
                    => /\ poolLock' = "free"
                       /\ ~shutdownBegun'
                       /\ <<idle', leased', poolEntries', lease', callerPc'>>
                            = <<idle, leased, poolEntries, lease, callerPc>>
       /\ (poolLog = "provision_failed" /\ poolLock = "free" /\ ~shutdownBegun)
            => /\ ENABLED MaintainBegin
               /\ \A c \in Callers :
                    callerPc[c] = "out" => ENABLED (CheckoutBegin(c) \/ CheckoutExhausted(c))]_vars

\* the cycle that follows one whose provisioning failed has started, with
\* the list still below the floor and an engine still to be had
C14_Witness ==
    /\ poolLog = "provision_failed"
    /\ poolLock = "maintainer"
    /\ Cardinality(poolEntries) < PoolFloor
    /\ nextId <= MaxEntries

\* C15: once shutdown has begun it stays begun; a checkout is answered with
\* ShuttingDown and never started, so no entry becomes Leased or is created;
\* the Leases handed out before can still be released; the maintenance
\* task never enters the section again; and a second shutdown changes
\* nothing in the pool
C15_ShutdownRejectsCheckouts ==
    [][shutdownBegun
         => /\ shutdownBegun'
            /\ idle' = {}
            /\ leased' \subseteq leased
            /\ nextId' = nextId
            /\ poolLock' # "maintainer"
            /\ ~ENABLED MaintainBegin
            /\ \A c \in Callers :
                 /\ callerPc[c] = "out" => callerPc'[c] = "out"
                 /\ (callerPc[c] = "out" /\ poolLock = "free")
                      => ENABLED CheckoutRejected(c) /\ ~ENABLED CheckoutBegin(c)
                 /\ (callerPc[c] = "leased" /\ poolLock = "free")
                      => ENABLED PhaseExit(c, "returned")
                 /\ callerPc[c] = "releasing" => ENABLED ReleaseCommit(c, FALSE)
            /\ (poolLog # "shutdown_repeated" /\ poolLog' = "shutdown_repeated")
                 => <<poolLock', callerPc', lease', idle', leased', provisioning', retiring',
                      closed', poolEntries', overflowEntries', useCount', exitPath'>>
                    = <<poolLock, callerPc, lease, idle, leased, provisioning, retiring,
                        closed, poolEntries, overflowEntries, useCount, exitPath>>]_vars

\* after shutdown began a checkout has been rejected with ShuttingDown while
\* a Lease handed out earlier is on its way back
C15_Witness ==
    /\ shutdownBegun
    /\ poolLog = "ShuttingDown"
    /\ \E c \in Callers : callerPc[c] = "releasing"
    /\ \E c \in Callers : callerPc[c] = "out"

\* C16: a checkout that finds the section free starts whatever is Leased,
\* and once started it can always finish, with a Lease or AcquisitionFailed;
\* started with nothing Idle and the entry list at its maximum, it
\* provisions an overflow entry, which is Leased to the caller without
\* entering the entry list, so that the list never exceeds the maximum
C16_CheckoutNeverWaits ==
    [][/\ \A c \in Callers :
            /\ (callerPc[c] = "out" /\ poolLock = "free" /\ ~shutdownBegun)
                 => ENABLED (CheckoutBegin(c) \/ CheckoutExhausted(c))
            /\ callerPc[c] = "selecting" => ENABLED CheckoutLease(c)
            /\ callerPc[c] = "provisioning"
                 => ENABLED ProvisionDone(c) /\ ENABLED ProvisionFail(c)
            /\ (callerPc[c] = "out" /\ callerPc'[c] # "out"
                   /\ idle = {} /\ Cardinality(poolEntries) >= PoolMax)
                 => /\ callerPc'[c] = "provisioning"
                    /\ lease'[c] \in overflowEntries'
            /\ (callerPc[c] = "provisioning" /\ callerPc'[c] = "leased"
                   /\ lease[c] \in overflowEntries)
                 => /\ lease[c] \in leased'
                    /\ poolEntries' = poolEntries
       /\ overflowEntries' \cap (poolEntries' \cup idle') = {}
       /\ Cardinality(poolEntries') <= PoolMax]_vars

\* both entries of a full list are Leased and a third caller holds the
\* overflow entry its checkout provisioned
C16_Witness ==
    /\ poolLog = "PoolExhaustedOverflow"
    /\ Cardinality(poolEntries) = PoolMax
    /\ poolEntries \subseteq leased
    /\ \E c \in Callers : callerPc[c] = "leased" /\ lease[c] \in overflowEntries
    /\ \A c \in Callers : callerPc[c] = "leased"

-----------------------------------------------------------------------------
(* Properties of the rate limiter *)

\* C25: the token count of the bucket is always within 0..burst_limit; a
\* can_proceed call returns (True, 0) exactly when the bucket, initialised
\* and refilled for the time since its last update, holds a whole token,
\* and then leaves one token less than that; otherwise it returns False
\* with a positive delay and leaves what the refill gave
C25_TokenBucketBounds ==
    [][/\ tokens' \in 0..BurstUnits \cup {NoKey}
       /\ rlCalls' # rlCalls
            => LET filled == Refilled(tokens, last_update, now)
               IN  /\ tokens' \in 0..BurstUnits
                   /\ rlReturn'[1] <=> filled >= TokenScale
                   /\ rlReturn'[1] => rlReturn'[2] = 0 /\ tokens' = filled - TokenScale
                   /\ ~rlReturn'[1] => rlReturn'[2] > 0 /\ tokens' = filled
       /\ rlCalls' = rlCalls => tokens' = tokens]_vars

\* a call was refused on a bucket holding half a token, after the burst had
\* been used up and time had passed
C25_Witness ==
    /\ rlReturn = <<FALSE, 1>>
    /\ tokens = 1
    /\ granted >= BurstLimit
    /\ last_update > 0

\* C26: the requests let through by __enter__ or wait_if_needed are never
\* more than the calls the limiter granted
C26_ProceedOnlyWhenGranted ==
    proceeded <= granted

-----------------------------------------------------------------------------
(* Properties of _calculate_overall_score *)

\* C4: the result is in 0..100 and is an integer nearest to
\* 0.35*speed + 0.25*seo + 0.25*security + 0.15*mobile, the weights being
\* fixed and summing to 1 whichever scores are 0; 90, 0, 70, 40 gives 55
C4_WeightedRound ==
    calcIn # <<>> =>
        /\ calcOut \in 0..100
        /\ Abs(100 * calcOut
                 - (35 * calcIn[1] + 25 * calcIn[2] + 25 * calcIn[3] + 15 * calcIn[4])) <= 50
        /\ calcIn = <<90, 0, 70, 40>> => calcOut = 55
        /\ calcIn = <<100, 100, 100, 100>> => calcOut = 100

\* the worked example of the design text
C4_Witness ==
    /\ calcIn = <<90, 0, 70, 40>>
    /\ calcOut = 55

-----------------------------------------------------------------------------
(* Properties of the cache                                                 *)

\* the step is a call of the named kind
CacheCall(name) == cacheOps' # cacheOps /\ lastOp'[1] = name

\* C27: MemoryCache is a bounded LRU cache: it never stores more than
\* max_size items, a set leaves its key stored as the most recently used,
\* and a set drops another key only when the capacity overflows, the key
\* dropped being the least recently used one, where a set of a key and a
\* get that returned it are its uses.
C27_BoundedLru ==
    [][(IsMemoryCache(cacheBackend) /\ cacheOps' # cacheOps) =>
         /\ Len(store') <= MaxSize
         /\ CacheCall("set") =>
              LET k == lastOp'[2]
                  dropped == KeysOf(store) \ KeysOf(store')
                  others == KeysWithout(lruOrder, k)
              IN  /\ k \in KeysOf(store')
                  /\ lruOrder'[Len(lruOrder')] = k
                  /\ IF Cardinality(KeysOf(store) \cup {k}) > MaxSize
                     THEN dropped = {others[1]}
                     ELSE dropped = {}
         /\ CacheCall("get") => KeysOf(store) \ KeysOf(store') \subseteq {lastOp'[2]}
      ]_vars

\* k2 was dropped by the set of k3 although k1 is older, because k1 was read
C27_Witness ==
    /\ cacheBackend = "memory"
    /\ lastOp = <<"set", "k3">>
    /\ stats.hits = 1 /\ stats.sets = 3 /\ stats.deletes = 0 /\ stats.misses = 0
    /\ cacheTime = 0
    /\ lruOrder = <<"k1", "k3">>
    /\ Len(store) = MaxSize /\ store[1].key = "k1" /\ store[2].key = "k3"

\* C28: a get returns the stored item exactly when it is stored and not
\* expired, an item with ttl > 0 being expired once more than ttl has
\* elapsed since it was created and an item with ttl <= 0 never; an expired
\* item is removed from the backend by the get, and each CacheService.get
\* counts exactly one hit (item returned) or one miss (None returned).
C28_GetNeverReturnsExpired ==
    [][CacheCall("get") =>
         LET k == lastOp'[2]
             stored == k \in KeysOf(store)
             it == ItemOf(store, k)
             live == stored /\ (it.ttl <= 0 \/ cacheTime - it.created_at <= it.ttl)
         IN  /\ live =>
                  /\ getReturn' = it
                  /\ k \in KeysOf(store')
                  /\ stats' = [stats EXCEPT !.hits = @ + 1]
             /\ ~live =>
                  /\ getReturn' = NoItem
                  /\ k \notin KeysOf(store')
                  /\ stats' = [stats EXCEPT !.misses = @ + 1]
      ]_vars

\* the only item ever set has expired and a get of the disk cache removed it
C28_Witness ==
    /\ cacheBackend = "disk"
    /\ lastOp[1] = "get"
    /\ getReturn = NoItem
    /\ stats.sets = 1 /\ stats.deletes = 0 /\ stats.misses = 1 /\ stats.hits = 0
    /\ cacheOps = 2
    /\ store = <<>>

\* C29: after a cleanup cycle no item whose ttl has elapsed remains stored,
\* whatever the backend.
C29_CleanupRemovesExpired ==
    [][CacheCall("cleanup") =>
         \A i \in 1..Len(store') :
            ~(store'[i].ttl > 0 /\ cacheTime' - store'[i].created_at > store'[i].ttl)
      ]_vars

-----------------------------------------------------------------------------
(* Properties of the background analysis                                   *)

\* a results-bearing 'Complete!' event or an 'Error' event
Terminal(e) == e.stage = "Error" \/ (e.stage = "Complete!" /\ e.results)

\* C30: in the events of one session no 'Error' event follows a 'Complete!'
\* event with progress 100, and a run that has ended has sent exactly one
\* terminal event and has no open database session.
C30_ConsistentEnding ==
    \A s \in Sessions :
        LET evs == bgEvents[s]
        IN  /\ \A i, j \in 1..Len(evs) :
                  (i < j /\ evs[i].stage = "Complete!" /\ evs[i].progress = 100)
                     => evs[j].stage # "Error"
            /\ bgPc[s] = "done" =>
                  /\ Cardinality({i \in 1..Len(evs) : Terminal(evs[i])}) = 1
                  /\ db[s] # "open"

=============================================================================
